---------------------------- MODULE Spec2Model ----------------------------
(***************************************************************************)
(* A model of the Rt2::Xml module: the entity decoder (SpecialChar), the   *)
(* two-mode Scanner, the File parser with its construction stack, the Node *)
(* tree and the Writer.                                                    *)
(*                                                                         *)
(* Characters are one-character strings, strings are sequences of          *)
(* characters, an input stream is the sequence of characters not yet read. *)
(***************************************************************************)
EXTENDS Integers, Sequences, FiniteSets, TLC

VARIABLES
    pc,         \* position of the caller: which operation runs next
    source,     \* the characters the input stream was created with
    stream,     \* IStream: the characters not yet read
    chIn,       \* SpecialChar::check: the argument `in`
    chOut,      \* SpecialChar::check: the returned character
    scanner,    \* Scanner: _stream, _defaultState, _line, _code and the string table
    tokens,     \* the tokens scanned so far (ParserBase::_tokens)
    error,      \* the message of the exception thrown, or NoError
    doc,        \* the constructs the input stream was written from
    file,       \* File: _root, _stack, _filter, _isAttached, _maxDepth, _maxTags, _tagCount, _cursor
    heap,       \* the Node objects allocated so far, by node id
    depth,      \* StackGuard: the depth reached in the last round of the parse loop
    written,    \* the text a Writer sent to its output
    reread,     \* a second File, which reads the written text
    returned,   \* the Node pointer a call handed back to its caller
    call,       \* the arguments of the last call made on a Node by hand
    writer,     \* a Writer kept between calls: _root, _out and its settings
    round       \* the steps read() has taken: its start and the rounds of its loop

checkVars == <<stream, chIn, chOut>>
scanVars == <<scanner, tokens, error>>
fileVars == <<doc, file, heap, depth>>
writeVars == <<written, reread, returned, call, writer>>
vars ==
    <<pc, source, stream, chIn, chOut, scanner, tokens, error, doc, file, heap, depth,
      written, reread, returned, call, writer, round>>

-----------------------------------------------------------------------------
(* Characters and streams *)

EOF == "EOF"                     \* what get() and peek() return at the end
NUL == "NUL"                     \* the byte 0x00
XFF == "FF"                      \* the byte 0xFF

\* std::istream::peek
peek(s) == IF s = <<>> THEN EOF ELSE Head(s)

\* what std::istream::get leaves in the stream
drop(s) == IF s = <<>> THEN s ELSE Tail(s)

\* std::istream::putback; after a failed get (EOF) the stream is in the
\* failed state and putback does nothing
putback(s, c) == IF c = EOF THEN s ELSE <<c>> \o s

-----------------------------------------------------------------------------
(* SpecialChar.cpp *)

\* Chars with 'p' left out of the second row
CharsShortRow == <<
    <<"l", "g", "a", "q">>,
    <<"t", "m", "u">>,
    <<";", "p", "o">>,
    <<";", "t", "s">>,
    <<";">>
>>

\* the candidate characters of each position: {code, n}
Chars == <<
    <<"l", "g", "a", "q">>,
    <<"t", "m", "u", "p">>,
    <<";", "p", "o">>,
    <<";", "t", "s">>,
    <<";">>
>>

\* union ComputedLookup: eight bytes compared as one 64 bit index
ComputedLookup(a, b, c, d, e) == <<a, b, c, d, e, XFF, XFF, XFF>>

ComputedLookupDefault == <<NUL, NUL, NUL, NUL, NUL, XFF, XFF, XFF>>

Lt   == ComputedLookup("l", "t", ";", NUL, NUL)
Gt   == ComputedLookup("g", "t", ";", NUL, NUL)
Amp  == ComputedLookup("a", "m", "p", ";", NUL)
Quot == ComputedLookup("q", "u", "o", "t", ";")
APos == ComputedLookup("a", "p", "o", "s", ";")

contains(ch, code) == \E i \in 1..Len(code) : code[i] = ch

\* the putback loop run from code[0] up to code[u-1]
RECURSIVE putbackForward(_, _, _, _)
putbackForward(s, tested, i, u) ==
    IF i > u THEN s
    ELSE putbackForward(putback(s, tested[i]), tested, i + 1, u)

putbackTestedForward(s, tested, u) == putbackForward(s, tested, 1, u)

\* the putback loop of check: code[u-1] first, code[0] last
RECURSIVE putbackTested(_, _, _)
putbackTested(s, tested, u) ==
    IF u = 0 THEN s
    ELSE putbackTested(putback(s, tested[u]), tested, u - 1)

\* the loop of check over Chars, from position i (1-based) with u characters
\* consumed into tested; the result is [ret, stream]
RECURSIVE checkLoop(_, _, _, _, _)
checkLoop(in, s, i, tested, u) ==
    IF i <= Len(Chars) /\ contains(peek(s), Chars[i])
    THEN LET t == [tested EXCEPT ![u + 1] = Head(s)]
             r == drop(s)
         IN  IF t = Lt THEN [ret |-> "<", stream |-> r]
             ELSE IF t = Gt THEN [ret |-> ">", stream |-> r]
             ELSE IF t = Quot THEN [ret |-> "\"", stream |-> r]
             ELSE IF t = APos THEN [ret |-> "'", stream |-> r]
             ELSE IF t = Amp THEN [ret |-> "&", stream |-> r]
             ELSE checkLoop(in, r, i + 1, t, u + 1)
    ELSE [ret |-> in, stream |-> putbackTested(s, tested, u)]

\* SpecialChar::check(in, stream)
check(in, s) ==
    IF in = "&"
    THEN checkLoop(in, s, 1, ComputedLookupDefault, 0)
    ELSE [ret |-> in, stream |-> s]


-----------------------------------------------------------------------------
(* Scanner.cpp *)

\* an exception: its message and the values printed with it
Err(msg, args) == [msg |-> msg, args |-> args]

NoError == Err("none", <<>>)

LowerCaseAz == {"a", "b", "c", "d", "e", "f", "g", "h", "i", "j", "k", "l", "m",
                "n", "o", "p", "q", "r", "s", "t", "u", "v", "w", "x", "y", "z"}
UpperCaseAz == {"A", "B", "C", "D", "E", "F", "G", "H", "I", "J", "K", "L", "M",
                "N", "O", "P", "Q", "R", "S", "T", "U", "V", "W", "X", "Y", "Z"}
Digits09 == {"0", "1", "2", "3", "4", "5", "6", "7", "8", "9"}

isLetter(ch) == ch \in LowerCaseAz \cup UpperCaseAz
isDecimal(ch) == ch \in Digits09
isWhiteSpace(ch) == ch \in {" ", "\t", "\n", "\r"}

isValidIdentifier(ch) == isLetter(ch) \/ isDecimal(ch) \/ ch = "_" \/ ch = ":"

isQuote(ch) == ch = "\"" \/ ch = "'"

\* Token::clear
NullToken == [type |-> "TOK_NULL", index |-> -1, line |-> 0]

\* Scanner::Scanner and attach(stream)
NewScanner(s) ==
    [stream |-> s, defaultState |-> TRUE, line |-> 1, code |-> <<>>, strings |-> <<>>]

\* the result of a scanner operation
ScanResult(sc, tok, err) == [sc |-> sc, tok |-> tok, error |-> err]

\* the while loop of scanString; ch is the character read last
RECURSIVE scanStringLoop(_, _, _)
scanStringLoop(s, ch, dest) ==
    IF isQuote(ch) THEN [stream |-> s, dest |-> dest, error |-> NoError]
    ELSE IF peek(s) = EOF
         THEN [stream |-> drop(s), dest |-> Append(dest, ch),
               error |-> Err("unexpected end of file", <<>>)]
         ELSE scanStringLoop(drop(s), peek(s), Append(dest, ch))

\* Scanner::save: the string goes to the end of the string table, and its
\* position there is the index of the token
save(sc, dest) == [sc EXCEPT !.strings = Append(@, dest)]

\* Scanner::scanString
scanString(sc, tok) ==
    IF ~isQuote(peek(sc.stream))
    THEN ScanResult([sc EXCEPT !.stream = drop(@)], tok,
                    Err("expected the quote character", <<>>))
    ELSE LET s1 == drop(sc.stream)
             r  == scanStringLoop(drop(s1), peek(s1), <<>>)
             sc1 == [sc EXCEPT !.stream = r.stream]
         IN  IF r.error # NoError THEN ScanResult(sc1, tok, r.error)
             ELSE ScanResult(save(sc1, r.dest),
                             [tok EXCEPT !.index = Len(sc.strings),
                                         !.type = "TOK_STRING"],
                             NoError)

\* the while loop of scanSymbol
RECURSIVE scanSymbolLoop(_, _, _)
scanSymbolLoop(s, ch, cmp) ==
    IF isValidIdentifier(ch)
    THEN scanSymbolLoop(drop(s), peek(s), Append(cmp, ch))
    ELSE [stream |-> putback(s, ch), cmp |-> cmp]

\* Scanner::scanSymbol
scanSymbol(sc, tok) ==
    LET ch == peek(sc.stream)
        s1 == drop(sc.stream)
    IN  IF isLetter(ch)
        THEN LET r   == scanSymbolLoop(drop(s1), peek(s1), <<ch>>)
                 sc1 == [sc EXCEPT !.stream = r.stream]
             IN  IF r.cmp = <<"x", "m", "l">>
                 THEN ScanResult(sc1, [tok EXCEPT !.type = "TOK_KW_XML"], NoError)
                 ELSE ScanResult(save(sc1, r.cmp),
                                 [tok EXCEPT !.type = "TOK_IDENTIFIER",
                                             !.index = Len(sc.strings)],
                                 NoError)
        ELSE ScanResult([sc EXCEPT !.stream = s1], tok, NoError)

\* ScannerBase::scanWhiteSpace: skips the blanks and tabs that follow
RECURSIVE scanWhiteSpace(_)
scanWhiteSpace(s) ==
    IF peek(s) \in {" ", "\t"} THEN scanWhiteSpace(drop(s)) ELSE s

\* a content loop that takes every run for text
RECURSIVE scanContentLoopNeverBlank(_, _, _, _)
scanContentLoopNeverBlank(s, ch, oss, onlyWhiteSpace) ==
    IF ch = "<" THEN [stream |-> putback(s, ch), dest |-> oss, onlyWhiteSpace |-> FALSE]
    ELSE IF peek(s) = EOF
    THEN [stream |-> putback(drop(s), EOF), dest |-> Append(oss, ch), onlyWhiteSpace |-> FALSE]
    ELSE scanContentLoopNeverBlank(drop(s), peek(s), Append(oss, ch), FALSE)

\* the inner loop of the content state; ch is the character read last
RECURSIVE scanContentLoop(_, _, _, _)
scanContentLoop(s, ch, oss, onlyWhiteSpace) ==
    IF ch = "<" THEN [stream |-> putback(s, ch), dest |-> oss, onlyWhiteSpace |-> onlyWhiteSpace]
    ELSE LET oss1 == Append(oss, ch)
             ows  == IF onlyWhiteSpace THEN isWhiteSpace(ch) ELSE FALSE
         IN  IF peek(s) = EOF
             THEN [stream |-> putback(drop(s), EOF), dest |-> oss1, onlyWhiteSpace |-> ows]
             ELSE scanContentLoop(drop(s), peek(s), oss1, ows)

\* the loop of Scanner::scan, one character per round
RECURSIVE scanLoop(_, _)
scanLoop(sc, tok) ==
    LET ch == peek(sc.stream)
        s1 == drop(sc.stream)
        sc1 == [sc EXCEPT !.stream = s1]
        t  == [tok EXCEPT !.line = sc.line]
    IN  IF ch = EOF THEN ScanResult(sc1, [tok EXCEPT !.type = "TOK_EOF"], NoError)
        ELSE IF sc.defaultState
        THEN CASE ch = "<" ->
                    IF peek(s1) = "!"
                    THEN ScanResult(sc1, t, Err("comment", <<>>))
                    ELSE ScanResult(sc1, [t EXCEPT !.type = "TOK_ST_TAG"], NoError)
               [] isQuote(ch) -> scanString([sc1 EXCEPT !.stream = putback(s1, ch)], t)
               [] ch = "=" -> ScanResult(sc1, [t EXCEPT !.type = "TOK_EQUALS"], NoError)
               [] ch = ">" -> ScanResult([sc1 EXCEPT !.defaultState = FALSE],
                                         [t EXCEPT !.type = "TOK_EN_TAG"], NoError)
               [] ch = "/" -> ScanResult(sc1, [t EXCEPT !.type = "TOK_SLASH"], NoError)
               [] ch = "?" -> ScanResult(sc1, [t EXCEPT !.type = "TOK_QUESTION"], NoError)
               [] ch = ":" \/ isDecimal(ch) \/ isLetter(ch) ->
                    scanSymbol([sc1 EXCEPT !.stream = putback(s1, ch)], t)
               [] ch \in {"\r", "\n"} ->
                    scanLoop([sc1 EXCEPT
                                 !.stream = IF ch = "\r" /\ peek(s1) = "\n"
                                            THEN drop(s1) ELSE s1,
                                 !.line = @ + 1], t)
               [] ch \in {" ", "\t"} ->
                    scanLoop([sc1 EXCEPT !.stream = scanWhiteSpace(s1)], t)
               [] OTHER -> ScanResult(sc1, t, Err("unknown character parsed", <<<<ch>>>>))
        ELSE LET r   == scanContentLoop(s1, ch, <<>>, TRUE)
                 sc2 == [sc1 EXCEPT !.stream = r.stream, !.defaultState = TRUE]
             IN  IF r.dest # <<>> /\ ~r.onlyWhiteSpace
                 THEN ScanResult([sc2 EXCEPT !.code = Append(@, r.dest)],
                                 [t EXCEPT !.index = Len(sc.code), !.type = "TOK_TEXT"],
                                 NoError)
                 ELSE scanLoop(sc2, t)

\* Scanner::scan(tok)
scan(sc) == scanLoop(sc, NullToken)

\* Scanner::string(idx): the entry of the string table
string(sc, idx) ==
    IF idx >= 0 /\ idx < Len(sc.strings) THEN sc.strings[idx + 1] ELSE <<>>

-----------------------------------------------------------------------------
(* Node.h, Node.cpp: nodes live in a heap, a sequence indexed by node id; *)
(* the id 0 is the null pointer                                           *)

NullNode == 0

\* Node::Node(name, typeCode = -1)
NewNode(name) ==
    [name |-> name, typeCode |-> -1, parent |-> NullNode, next |-> NullNode,
     text |-> <<>>, attributes |-> <<>>, children |-> <<>>,
     childrenDetached |-> FALSE, deleted |-> 0]

\* a child list that grows at its front
addChildFront(nodes, parentId, child) ==
    LET kids == nodes[parentId].children
        n1 == [nodes EXCEPT ![child].parent = parentId,
                            ![child].next = IF kids # <<>> THEN kids[1] ELSE NullNode]
    IN  [n1 EXCEPT ![parentId].children = <<child>> \o @]

\* Node::addChild(child) on the node parentId
addChild(nodes, parentId, child) ==
    LET kids == nodes[parentId].children
        n1 == [nodes EXCEPT ![child].parent = parentId, ![child].next = NullNode]
        n2 == IF kids # <<>>
              THEN [n1 EXCEPT ![kids[Len(kids)]].next = child]
              ELSE n1
    IN  [n2 EXCEPT ![parentId].children = Append(@, child)]

\* Node::contains(attribute); the map is kept as a sequence of pairs
containsAttribute(node, key) ==
    \E i \in 1..Len(node.attributes) : node.attributes[i].key = key

\* an insert that replaces the value of a key already there
insertOverwrite(nodes, id, key, v) ==
    [nodes EXCEPT ![id].attributes =
        IF containsAttribute(nodes[id], key)
        THEN [i \in 1..Len(@) |-> IF @[i].key = key THEN [key |-> key, value |-> v] ELSE @[i]]
        ELSE Append(@, [key |-> key, value |-> v])]

\* Node::insert(key, v): a key already there is left alone
insert(nodes, id, key, v) ==
    IF containsAttribute(nodes[id], key) THEN nodes
    ELSE [nodes EXCEPT ![id].attributes = Append(@, [key |-> key, value |-> v])]

\* Node::text(text)
setText(nodes, id, text) == [nodes EXCEPT ![id].text = text]

\* Node::setTypeCode(code)
setTypeCode(nodes, id, code) == [nodes EXCEPT ![id].typeCode = code]

\* delete node: Node::~Node and Node::clearChildren
RECURSIVE deleteNode(_, _)
RECURSIVE deleteAll(_, _)
deleteAll(nodes, ids) ==
    IF ids = <<>> THEN nodes
    ELSE deleteAll(deleteNode(nodes, Head(ids)), Tail(ids))

deleteNode(nodes, id) ==
    LET n1 == IF nodes[id].childrenDetached THEN nodes
              ELSE deleteAll(nodes, nodes[id].children)
    IN  [n1 EXCEPT ![id].deleted = @ + 1, ![id].children = <<>>]

-----------------------------------------------------------------------------
(* File.h, File.cpp: the parser.  A parse in progress is the record       *)
(* [file, scanner, tokens, nodes, depth, error]; every rule maps it to    *)
(* the record it leaves, and does nothing once an error is raised.        *)

MaxParseDepth == 64
MinParseDepth == 0
DefaultMaxDepth == 16
TagUpperBound == 1024
U16Limit == 65536

Clamp(v, lo, hi) == IF v < lo THEN lo ELSE IF v > hi THEN hi ELSE v

EmptyFilter == <<>>

\* File::File(filter, filterSize, maxTags, maxDepth): _root is node 1
NewFile(filter, maxTags, maxDepth) ==
    [root |-> 1, stack |-> <<>>, filter |-> filter, isAttached |-> TRUE,
     maxDepth |-> Clamp(maxDepth, MinParseDepth, MaxParseDepth),
     maxTags |-> maxTags, tagCount |-> 0, cursor |-> 0]

Failed(P) == P.error # NoError

\* a stack emptied down to the root without deleting what it held
drainStackKeepNodes(stack, nodes) ==
    [stack |-> IF stack = <<>> THEN stack ELSE <<stack[1]>>, nodes |-> nodes]

\* File::errorMessageImpl: the stack is emptied down to the root and the
\* nodes taken from it are deleted
RECURSIVE drainStack(_, _)
drainStack(stack, nodes) ==
    IF Len(stack) > 1
    THEN drainStack(SubSeq(stack, 1, Len(stack) - 1),
                    deleteNode(nodes, stack[Len(stack)]))
    ELSE [stack |-> stack, nodes |-> nodes]

\* ParserBase::error(...): errorMessageImpl, then the exception
raise(P, msg, args) ==
    LET d == drainStack(P.file.stack, P.nodes)
    IN  [P EXCEPT !.error = Err(msg, args), !.file.stack = d.stack, !.nodes = d.nodes]

\* Scanner::syntaxError(...) thrown inside ParserBase::token
raiseScan(P, err) == raise(P, err.msg, err.args)

\* ParserBase::token(k): the tokens up to _cursor + k are scanned when they
\* are first asked for
RECURSIVE fetch(_, _)
fetch(P, k) ==
    IF Failed(P) \/ Len(P.tokens) > P.file.cursor + k THEN P
    ELSE LET r == scan(P.scanner)
         IN  IF r.error # NoError
             THEN raiseScan([P EXCEPT !.scanner = r.sc], r.error)
             ELSE fetch([P EXCEPT !.scanner = r.sc, !.tokens = Append(@, r.tok)], k)

\* token(k) once fetched
token(P, k) == P.tokens[P.file.cursor + k + 1]

\* ParserBase::advanceCursor(n)
advanceCursor(P, n) == [P EXCEPT !.file.cursor = @ + n]

\* StackGuard::depthGuard: one level deeper, an error past the maximum
depthGuard(P) ==
    IF P.depth + 1 > P.file.maxDepth
    THEN raise(P, "maximum stack depth exceeded", <<>>)
    ELSE [P EXCEPT !.depth = @ + 1]

\* StackGuard::resetGuard
resetGuard(P) == [P EXCEPT !.depth = 0]

\* File::top
top(P) == P.file.stack[Len(P.file.stack)]

\* File::createTag(name): the counter is 16 bits wide
createTag(P, name) ==
    IF Failed(P) THEN P ELSE
    LET count == (P.file.tagCount + 1) % U16Limit
        P1 == [P EXCEPT !.file.tagCount = count]
        id == Len(P.nodes) + 1
    IN  IF count > P.file.maxTags
        THEN raise(P1, "maximum tag limit exceeded", <<>>)
        ELSE [P1 EXCEPT !.nodes = Append(@, NewNode(name)),
                        !.file.stack = Append(@, id)]

\* a reduceRule that attaches the nodes the filter does not list
reduceRuleKeepsUnlisted(P) ==
    IF Len(P.file.stack) > 1
    THEN [P EXCEPT !.file.stack = SubSeq(@, 1, Len(@) - 1),
                   !.nodes = addChild(@, P.file.stack[Len(P.file.stack) - 1], top(P))]
    ELSE P

\* File::reduceRule
reduceRule(P) ==
    IF Len(P.file.stack) > 1
    THEN LET b == top(P)
             stack == SubSeq(P.file.stack, 1, Len(P.file.stack) - 1)
             a == stack[Len(stack)]
             P1 == [P EXCEPT !.file.stack = stack]
         IN  IF DOMAIN P.file.filter = {}
             THEN [P1 EXCEPT !.nodes = addChild(@, a, b)]
             ELSE IF P.nodes[b].name \in DOMAIN P.file.filter
                  THEN [P1 EXCEPT !.nodes =
                            addChild(setTypeCode(@, b, P.file.filter[P.nodes[b].name]), a, b)]
                  ELSE [P1 EXCEPT !.nodes = deleteNode(@, b)]
    ELSE P

\* File::dropRule
dropRule(P) ==
    IF Failed(P) THEN P
    ELSE IF Len(P.file.stack) > 1
    THEN [P EXCEPT !.file.stack = SubSeq(@, 1, Len(@) - 1),
                   !.nodes = deleteNode(@, top(P))]
    ELSE P

\* Each rule is written as a chain of steps; a step takes the parse as the
\* statements before it left it and passes an error on unchanged.

\* File::ruleAttribute, after its three tokens are read
ruleAttributeChecks(P) ==
    IF Failed(P) THEN P
    ELSE IF token(P, 0).type # "TOK_IDENTIFIER"
    THEN raise(P, "expected an identifier", <<>>)
    ELSE IF token(P, 1).type # "TOK_EQUALS"
    THEN raise(P, "expected an equals sign", <<>>)
    ELSE IF token(P, 2).type # "TOK_STRING"
    THEN raise(P, "expected an equals sign", <<>>)
    ELSE LET node == top(P)
             identifier == string(P.scanner, token(P, 0).index)
             value == string(P.scanner, token(P, 2).index)
         IN  IF containsAttribute(P.nodes[node], identifier)
             THEN raise(P, "duplicate attribute", <<P.nodes[node].name, identifier>>)
             ELSE advanceCursor(
                      [P EXCEPT !.nodes = insert(@, node, identifier, value)], 3)

\* File::ruleAttribute
ruleAttribute(P) ==
    IF Failed(P) THEN P ELSE ruleAttributeChecks(fetch(depthGuard(P), 2))

\* the do-while loop of ruleAttributeList: the test after one attribute
RECURSIVE attributeLoop(_)
attributeLoopTest(P) ==
    IF Failed(P) THEN P
    ELSE IF token(P, 0).type = "TOK_EOF"
    THEN raise(P, "unexpected end of file", <<>>)
    ELSE IF token(P, 0).type \notin {"TOK_EN_TAG", "TOK_SLASH"}
    THEN attributeLoop(P)
    ELSE P

attributeLoop(P) == attributeLoopTest(fetch(ruleAttribute(P), 0))

\* File::ruleAttributeList, after its first token is read
ruleAttributeListChecks(P) ==
    IF Failed(P) THEN P
    ELSE IF token(P, 0).type \notin {"TOK_EN_TAG", "TOK_SLASH"}
    THEN attributeLoop(P)
    ELSE P

\* File::ruleAttributeList
ruleAttributeList(P) ==
    IF Failed(P) THEN P ELSE ruleAttributeListChecks(fetch(depthGuard(P), 0))

\* the while loop of ruleXmlRoot
RECURSIVE xmlRootLoop(_)
xmlRootLoopEof(P) ==
    IF Failed(P) THEN P
    ELSE IF token(P, 0).type = "TOK_EOF"
    THEN raise(P, "unexpected end of file", <<>>)
    ELSE xmlRootLoop(P)

xmlRootLoopTest(P) ==
    IF Failed(P) THEN P
    ELSE IF token(P, 0).type # "TOK_QUESTION"
    THEN xmlRootLoopEof(fetch(ruleAttribute(P), 0))
    ELSE P

xmlRootLoop(P) == xmlRootLoopTest(fetch(P, 0))

\* File::ruleXmlRoot, the '>' after the '?'
ruleXmlRootEnd(P) ==
    IF Failed(P) THEN P
    ELSE IF token(P, 0).type # "TOK_EN_TAG"
    THEN raise(P, "unexpected token", <<>>)
    ELSE advanceCursor(P, 1)

\* File::ruleXmlRoot, after the attributes
ruleXmlRootClose(P) ==
    IF Failed(P) THEN P ELSE ruleXmlRootEnd(fetch(advanceCursor(P, 1), 0))

\* File::ruleXmlRoot, after its three tokens are read
ruleXmlRootChecks(P) ==
    IF Failed(P) THEN P
    ELSE IF token(P, 0).type # "TOK_ST_TAG"
    THEN raise(P, "expected the '<' character", <<>>)
    ELSE IF token(P, 1).type # "TOK_QUESTION"
    THEN raise(P, "expected the '/' character", <<>>)
    ELSE IF token(P, 2).type # "TOK_KW_XML"
    THEN raise(P, "expected the xml keyword", <<>>)
    ELSE ruleXmlRootClose(xmlRootLoop(advanceCursor(P, 3)))

\* File::ruleXmlRoot
ruleXmlRoot(P) ==
    IF Failed(P) THEN P ELSE ruleXmlRootChecks(fetch(depthGuard(P), 2))

\* File::ruleStartTag, the '>' after the '/'
ruleStartTagSlash(P) ==
    IF Failed(P) THEN P
    ELSE IF token(P, 1).type # "TOK_EN_TAG"
    THEN raise(P, "expected the '>' character", <<>>)
    ELSE advanceCursor(reduceRule(P), 2)

\* File::ruleStartTag, the exit state of the attribute list
ruleStartTagExit(P) ==
    IF Failed(P) THEN P
    ELSE IF token(P, 0).type = "TOK_SLASH"
    THEN ruleStartTagSlash(fetch(P, 1))
    ELSE IF token(P, 0).type # "TOK_EN_TAG"
    THEN raise(P, "expected the '>' character", <<>>)
    ELSE advanceCursor(P, 1)

\* File::ruleStartTag, after its two tokens are read
ruleStartTagChecks(P) ==
    IF Failed(P) THEN P
    ELSE IF token(P, 0).type # "TOK_ST_TAG"
    THEN raise(P, "expected the < character", <<>>)
    ELSE IF token(P, 1).type # "TOK_IDENTIFIER"
    THEN raise(P, "expected a tag identifier", <<>>)
    ELSE IF string(P.scanner, token(P, 1).index) = <<>>
    THEN raise(P, "empty tag name", <<>>)
    ELSE ruleStartTagExit(
             fetch(ruleAttributeList(
                       createTag(advanceCursor(P, 2),
                                 string(P.scanner, token(P, 1).index))), 0))

\* File::ruleStartTag
ruleStartTag(P) ==
    IF Failed(P) THEN P ELSE ruleStartTagChecks(fetch(depthGuard(P), 1))

TextNodeName == <<"_", "t", "e", "x", "t", "_", "n", "o", "d", "e">>

\* Scanner::getCode(dest, idx)
getCode(sc, idx) ==
    IF idx >= 0 /\ idx < Len(sc.code) THEN sc.code[idx + 1] ELSE <<>>

\* File::ruleContent, the text node once created
ruleContentNode(P, content) ==
    IF Failed(P) THEN P
    ELSE advanceCursor(reduceRule([P EXCEPT !.nodes = setText(@, top(P), content)]), 1)

\* a ruleContent that leaves the text of the open element as it is
ruleContentOnlyChild(P) ==
    IF Failed(P) THEN P
    ELSE IF token(P, 0).type # "TOK_TEXT"
    THEN raise(P, "expected content text", <<>>)
    ELSE IF getCode(P.scanner, token(P, 0).index) = <<>>
    THEN raise(P, "unexpected empty content token", <<>>)
    ELSE ruleContentNode(createTag(P, TextNodeName),
                         getCode(P.scanner, token(P, 0).index))

\* File::ruleContent, after its token is read
ruleContentChecks(P) ==
    IF Failed(P) THEN P
    ELSE IF token(P, 0).type # "TOK_TEXT"
    THEN raise(P, "expected content text", <<>>)
    ELSE IF getCode(P.scanner, token(P, 0).index) = <<>>
    THEN raise(P, "unexpected empty content token", <<>>)
    ELSE ruleContentNode(
             createTag([P EXCEPT !.nodes =
                           setText(@, top(P), getCode(P.scanner, token(P, 0).index))],
                       TextNodeName),
             getCode(P.scanner, token(P, 0).index))

\* File::ruleContent
ruleContent(P) ==
    IF Failed(P) THEN P ELSE ruleContentChecks(fetch(depthGuard(P), 0))

\* an end tag that is not compared with the top of the stack
ruleEndTagAnyName(P) ==
    IF Failed(P) THEN P
    ELSE IF token(P, 0).type # "TOK_ST_TAG"
    THEN raise(P, "expected the '<' character", <<>>)
    ELSE IF token(P, 1).type # "TOK_SLASH"
    THEN raise(P, "expected the '/' character", <<>>)
    ELSE IF token(P, 2).type # "TOK_IDENTIFIER"
    THEN raise(P, "expected a tag identifier", <<>>)
    ELSE IF token(P, 3).type # "TOK_EN_TAG"
    THEN raise(P, "expected the '>' character", <<>>)
    ELSE reduceRule(advanceCursor(P, 4))

\* File::ruleEndTag, after its four tokens are read
ruleEndTagChecks(P) ==
    IF Failed(P) THEN P
    ELSE IF token(P, 0).type # "TOK_ST_TAG"
    THEN raise(P, "expected the '<' character", <<>>)
    ELSE IF token(P, 1).type # "TOK_SLASH"
    THEN raise(P, "expected the '/' character", <<>>)
    ELSE IF token(P, 2).type # "TOK_IDENTIFIER"
    THEN raise(P, "expected a tag identifier", <<>>)
    ELSE IF token(P, 3).type # "TOK_EN_TAG"
    THEN raise(P, "expected the '>' character", <<>>)
    ELSE IF string(P.scanner, token(P, 2).index) # P.nodes[top(P)].name
    THEN raise(P, "closing tag mis-match",
               <<P.nodes[top(P)].name, string(P.scanner, token(P, 2).index)>>)
    ELSE IF string(P.scanner, token(P, 2).index) = <<>>
    THEN raise(P, "empty closing tag", <<>>)
    ELSE reduceRule(advanceCursor(P, 4))

\* File::ruleEndTag
ruleEndTag(P) ==
    IF Failed(P) THEN P ELSE ruleEndTagChecks(fetch(depthGuard(P), 3))

\* File::ruleObject, after its three tokens are read
ruleObjectChecks(P) ==
    IF Failed(P) THEN P
    ELSE IF token(P, 0).type = "TOK_ST_TAG" /\ token(P, 1).type = "TOK_IDENTIFIER"
    THEN ruleStartTag(P)
    ELSE IF /\ token(P, 0).type = "TOK_ST_TAG"
            /\ token(P, 1).type = "TOK_SLASH"
            /\ token(P, 2).type = "TOK_IDENTIFIER"
    THEN ruleEndTag(P)
    ELSE ruleContent(P)

\* File::ruleObject
ruleObject(P) ==
    IF Failed(P) THEN P ELSE ruleObjectChecks(fetch(depthGuard(P), 2))

\* File::ruleObjectList, after its two tokens are read
ruleObjectListChecks(P) ==
    IF Failed(P) THEN P
    ELSE IF token(P, 1).type = "TOK_QUESTION"
    THEN dropRule(ruleXmlRoot(createTag(P, <<"x", "m", "l">>)))
    ELSE IF token(P, 0).type \in {"TOK_ST_TAG", "TOK_TEXT"}
    THEN ruleObject(P)
    ELSE raise(P, "unknown token parsed", <<>>)

\* File::ruleObjectList
ruleObjectList(P) ==
    IF Failed(P) THEN P ELSE ruleObjectListChecks(fetch(depthGuard(P), 1))

\* File::parseImpl up to its loop
parseBegin(P, input) ==
    [P EXCEPT !.file.cursor = 0,
              !.file.tagCount = 1,
              !.scanner = NewScanner(input),
              !.file.stack = Append(@, P.file.root),
              !.depth = 0]

\* a loop that puts the cursor back where the round found it
parseRoundRewind(op, P) ==
    IF Failed(P) THEN [P |-> P, done |-> TRUE]
    ELSE [P |-> [P EXCEPT !.file.cursor = op], done |-> FALSE]

\* the loop of parseImpl: a cursor that did not advance is forced to
parseRoundAdvance(op, P) ==
    IF Failed(P) THEN [P |-> P, done |-> TRUE]
    ELSE IF op = P.file.cursor
    THEN [P |-> advanceCursor(P, 1), done |-> FALSE]
    ELSE [P |-> P, done |-> FALSE]

\* the loop of parseImpl, after token(0) is read
parseRoundToken(P) ==
    IF Failed(P) THEN [P |-> P, done |-> TRUE]
    ELSE IF token(P, 0).type = "TOK_EOF" THEN [P |-> P, done |-> TRUE]
    ELSE parseRoundAdvance(P.file.cursor, ruleObjectList(resetGuard(P)))

\* one round of the loop of File::parseImpl; done tells that the loop ended
parseRound(P) ==
    IF ~(P.file.cursor <= Len(P.tokens)) THEN [P |-> P, done |-> TRUE]
    ELSE parseRoundToken(fetch(P, 0))

-----------------------------------------------------------------------------
(* The inputs of SpecialChar::check *)

MaxTail == 2

\* the five sequences and the character each one stands for
Entities == {
    [seq |-> <<"l", "t", ";">>, ch |-> "<"],
    [seq |-> <<"g", "t", ";">>, ch |-> ">"],
    [seq |-> <<"a", "m", "p", ";">>, ch |-> "&"],
    [seq |-> <<"q", "u", "o", "t", ";">>, ch |-> "\""],
    [seq |-> <<"a", "p", "o", "s", ";">>, ch |-> "'"]
}


\* characters that follow the attempted sequence
TailAlphabet == {"&", ";", "t", "x"}

\* all sequences over S of length at most n
SeqsUpTo(S, n) == UNION {[1..k -> S] : k \in 0..n}

\* the characters the five sequences have at position i
PositionChars(i) == {e.seq[i] : e \in {x \in Entities : Len(x.seq) >= i}}

\* the sequences of length k that keep to the characters of each position
RECURSIVE HeadsOfLen(_)
HeadsOfLen(k) ==
    IF k = 0 THEN {<<>>}
    ELSE {Append(h, c) : h \in HeadsOfLen(k - 1), c \in PositionChars(k)}

Heads == UNION {HeadsOfLen(k) : k \in 0..5}

CheckStreams == {h \o t : h \in Heads, t \in SeqsUpTo(TailAlphabet, MaxTail)}

\* the scanner is not part of a SpecialChar::check run
ScanIdle ==
    /\ scanner = NewScanner(<<>>)
    /\ tokens = <<>>
    /\ error = NoError

\* a File as constructed, with its scanner and its root
NewParse(filter, maxTags, maxDepth) ==
    [file |-> NewFile(filter, maxTags, maxDepth), scanner |-> NewScanner(<<>>),
     tokens |-> <<>>, nodes |-> <<NewNode(<<>>)>>, depth |-> 0, error |-> NoError]

\* no call was made
NoCall == [op |-> "none", node |-> NullNode, key |-> <<>>, value |-> <<>>]

\* Writer.cpp: constexpr size_t Indent
Indent == 2

\* Writer::Writer(root)
NewWriter(root) ==
    [root |-> root, out |-> <<>>, indentBy |-> Indent, indentOffset |-> 0, indent |-> 0,
     writeXml |-> TRUE, notMinify |-> FALSE]

\* nothing is written, no Writer is kept and no second parser reads it
WriteIdle ==
    /\ written = <<>>
    /\ writer = NewWriter(NullNode)
    /\ reread = NewParse(EmptyFilter, TagUpperBound, DefaultMaxDepth)
    /\ returned = NullNode
    /\ call = NoCall

\* no parser is part of a run of the scanner alone
FileIdle ==
    /\ round = 0
    /\ doc = <<>>
    /\ file = NewFile(EmptyFilter, TagUpperBound, DefaultMaxDepth)
    /\ heap = <<>>
    /\ depth = 0
    /\ WriteIdle

CheckInit ==
    /\ pc = "check"
    /\ source \in CheckStreams
    /\ stream = source
    /\ chIn \in {"&", "x"}
    /\ chOut = NUL
    /\ ScanIdle
    /\ FileIdle

\* a caller reads `in` from the stream and hands it to SpecialChar::check
Check ==
    /\ pc = "check"
    /\ LET r == check(chIn, stream)
       IN  /\ chOut' = r.ret
           /\ stream' = r.stream
    /\ pc' = "checked"
    /\ UNCHANGED <<source, round, chIn>>
    /\ UNCHANGED scanVars
    /\ UNCHANGED fileVars
    /\ UNCHANGED writeVars

CheckNext == Check

SpecCheck == CheckInit /\ [][CheckNext]_vars

-----------------------------------------------------------------------------
(* Claims about SpecialChar::check *)

StartsWith(s, p) == Len(s) >= Len(p) /\ SubSeq(s, 1, Len(p)) = p

After(s, n) == SubSeq(s, n + 1, Len(s))

SpellsEntity(s) == \E e \in Entities : StartsWith(s, e.seq)

\* C2: when check does not decode (in is not '&', or the characters after it
\* do not spell one of the five sequences) it returns `in` and the stream
\* holds again exactly what it held before the call.
C2_FailedMatchRestoresStream ==
    (pc = "checked" /\ (chIn # "&" \/ ~SpellsEntity(source)))
        => (chOut = chIn /\ stream = source)

\* a failed attempt that consumed at least two characters, the stream ending
\* inside the sequence or going on with another character
C2_Witness ==
    /\ pc = "checked"
    /\ chIn = "&"
    /\ ~SpellsEntity(source)
    /\ StartsWith(source, <<"q", "u", "o", "t">>)
    /\ Len(source) > 4
    /\ stream = source

\* C3: for a stream that begins with one of the five sequences check('&')
\* returns its character and consumes exactly that sequence; nothing else is
\* ever decoded: a call that consumed anything began with one of the five.
C3_DecodesExactlyTheFive ==
    pc = "checked" =>
        /\ \A e \in Entities :
              (chIn = "&" /\ StartsWith(source, e.seq))
                  => (chOut = e.ch /\ stream = After(source, Len(e.seq)))
        /\ (stream # source \/ chOut # chIn)
              => (chIn = "&" /\ SpellsEntity(source))

\* "apos;" decoded with characters left after it
C3_Witness ==
    /\ pc = "checked"
    /\ chIn = "&"
    /\ StartsWith(source, <<"a", "p", "o", "s", ";">>)
    /\ chOut = "'"
    /\ Len(stream) = 2


-----------------------------------------------------------------------------
(* Scanning an input stream token by token *)

MaxBodyPieces == 2

RECURSIVE Join(_)
Join(ss) == IF ss = <<>> THEN <<>> ELSE Head(ss) \o Join(Tail(ss))

\* what the bodies of the quoted strings are made of: the five sequences,
\* sequences without their ';', and plain characters
BodyPieces == {
    <<"&", "l", "t", ";">>,
    <<"&", "g", "t", ";">>,
    <<"&", "a", "m", "p", ";">>,
    <<"&", "q", "u", "o", "t", ";">>,
    <<"&", "a", "p", "o", "s", ";">>,
    <<"&", "g", "t">>,
    <<"&", "a", "m", "p">>,
    <<"s">>
}

Bodies == {Join(ps) : ps \in SeqsUpTo(BodyPieces, MaxBodyPieces)}

\* one double-quoted string, as CheckSequenceSubstitution prints it
QuotedInputs == {<<"\"">> \o b \o <<"\"">> : b \in Bodies}

ScanInputs == QuotedInputs

CheckIdle ==
    /\ stream = <<>>
    /\ chIn = NUL
    /\ chOut = NUL

ScanInitWith(inputs) ==
    /\ pc = "scan"
    /\ source \in inputs
    /\ scanner = NewScanner(source)
    /\ tokens = <<>>
    /\ error = NoError
    /\ CheckIdle
    /\ FileIdle

ScanInit == ScanInitWith(ScanInputs)

\* sc.scan(tok), called until the end of input or an error
Scan ==
    /\ pc = "scan"
    /\ LET r == scan(scanner)
       IN  /\ scanner' = r.sc
           /\ tokens' = Append(tokens, r.tok)
           /\ error' = r.error
           /\ pc' = IF r.error # NoError THEN "error"
                    ELSE IF r.tok.type = "TOK_EOF" THEN "eof" ELSE "scan"
    /\ UNCHANGED <<source, round>>
    /\ UNCHANGED checkVars
    /\ UNCHANGED fileVars
    /\ UNCHANGED writeVars

ScanNext == Scan

SpecScan == ScanInit /\ [][ScanNext]_vars

-----------------------------------------------------------------------------
(* Claims about Scanner::scan *)

\* s with every well-formed sequence replaced by its character
RECURSIVE Decoded(_)
Decoded(s) ==
    IF s = <<>> THEN <<>>
    ELSE IF Head(s) = "&" /\ SpellsEntity(Tail(s))
         THEN LET e == CHOOSE x \in Entities : StartsWith(Tail(s), x.seq)
              IN  <<e.ch>> \o Decoded(After(s, 1 + Len(e.seq)))
         ELSE <<Head(s)>> \o Decoded(Tail(s))

IsQuoted(s) == Len(s) >= 2 /\ s[1] = "\"" /\ s[Len(s)] = "\""

BodyOf(s) == SubSeq(s, 2, Len(s) - 1)

\* C1: for an input that is one double-quoted string the first token is a
\* TOK_STRING whose payload is the body with every well-formed sequence
\* replaced by its character and everything else kept.
C1_StringPayloadIsDecoded ==
    (IsQuoted(source) /\ Len(tokens) >= 1) =>
        /\ error = NoError
        /\ tokens[1].type = "TOK_STRING"
        /\ string(scanner, tokens[1].index) = Decoded(BodyOf(source))

-----------------------------------------------------------------------------
(* Documents: a document is written as a sequence of constructs, and the   *)
(* input stream holds their text                                           *)

Open(name, attrs) == [kind |-> "open", name |-> name, attrs |-> attrs, text |-> <<>>]
Empty(name, attrs) == [kind |-> "empty", name |-> name, attrs |-> attrs, text |-> <<>>]
Close(name) == [kind |-> "close", name |-> name, attrs |-> <<>>, text |-> <<>>]
Text(text) == [kind |-> "text", name |-> <<>>, attrs |-> <<>>, text |-> text]
Prolog(attrs) == [kind |-> "prolog", name |-> <<>>, attrs |-> attrs, text |-> <<>>]

Attr(key, value) == [key |-> key, value |-> value]

\* K='V' for each attribute, a blank before each
RECURSIVE RenderAttrs(_)
RenderAttrs(attrs) ==
    IF attrs = <<>> THEN <<>>
    ELSE <<" ">> \o Head(attrs).key \o <<"=", "'">> \o Head(attrs).value \o <<"'">>
             \o RenderAttrs(Tail(attrs))

Render(item) ==
    CASE item.kind = "open" -> <<"<">> \o item.name \o RenderAttrs(item.attrs) \o <<">">>
      [] item.kind = "empty" -> <<"<">> \o item.name \o RenderAttrs(item.attrs) \o <<"/", ">">>
      [] item.kind = "close" -> <<"<", "/">> \o item.name \o <<">">>
      [] item.kind = "text" -> item.text
      [] item.kind = "prolog" ->
            <<"<", "?", "x", "m", "l">> \o RenderAttrs(item.attrs) \o <<"?", ">">>

RECURSIVE RenderAll(_)
RenderAll(items) ==
    IF items = <<>> THEN <<>> ELSE Render(Head(items)) \o RenderAll(Tail(items))

\* <N K='V'>T</N>
ElementDoc(N, K, V, T) == <<Open(N, <<Attr(K, V)>>), Text(T), Close(N)>>

ElementNames == {<<"a">>, <<"n", "1">>}
AttributeKeys == {<<"x">>, <<"k", ":", "y">>}
AttributeValues == {<<"1">>, <<>>, <<"a", " ", "b">>, <<"\"">>}
ElementTexts == {<<"h", "e", "l", "l", "o", " ", "w", "o", "r", "l", "d">>, <<" ", "t">>,
                 <<"&", "l", "t", ";">>}

ElementDocs ==
    {ElementDoc(N, K, V, T) :
        N \in ElementNames, K \in AttributeKeys, V \in AttributeValues, T \in ElementTexts}

MaxPieces == 5

\* the pieces documents are put together from: tags that nest, match or do
\* not match, text, and a whole element with text
NestingPieces == {
    <<Open(<<"a">>, <<>>)>>,
    <<Close(<<"a">>)>>,
    <<Text(<<"A">>)>>,
    <<Open(<<"b">>, <<>>), Text(<<"B">>), Close(<<"b">>)>>,
    <<Close(<<"b">>)>>
}

\* pieces with an element without content and a run of blanks
BlankPieces == {
    <<Open(<<"a">>, <<>>)>>,
    <<Close(<<"a">>)>>,
    <<Text(<<"A">>)>>,
    <<Empty(<<"c">>, <<>>)>>,
    <<Text(<<" ", "\n">>)>>
}

DocsOf(pieces, n) == {Join(ps) : ps \in SeqsUpTo(pieces, n)}

StructureDocs == DocsOf(NestingPieces, MaxPieces) \cup DocsOf(BlankPieces, MaxPieces)

-----------------------------------------------------------------------------
(* Parsing a document: File::read *)

\* the parse in progress, from the variables
Parse ==
    [file |-> file, scanner |-> scanner, tokens |-> tokens, nodes |-> heap,
     depth |-> depth, error |-> error]

SetParse(P) ==
    /\ file' = P.file
    /\ scanner' = P.scanner
    /\ tokens' = P.tokens
    /\ heap' = P.nodes
    /\ depth' = P.depth
    /\ error' = P.error

\* a File constructed with the given limits and filter, and the document in
\* an input stream
ParseStateWith(docs, filters, maxTags, maxDepths) ==
    /\ doc \in docs
    /\ round = 0
    /\ source = RenderAll(doc)
    /\ scanner = NewScanner(<<>>)
    /\ tokens = <<>>
    /\ error = NoError
    /\ \E f \in filters, t \in maxTags, d \in maxDepths : file = NewFile(f, t, d)
    /\ heap = <<NewNode(<<>>)>>
    /\ depth = 0
    /\ CheckIdle
    /\ WriteIdle

\* a File constructed and not yet asked to read
ParseInitWith(docs, filters, maxTags, maxDepths) ==
    /\ pc = "read"
    /\ ParseStateWith(docs, filters, maxTags, maxDepths)

\* File::read(stream): parseImpl up to its loop
Read ==
    /\ pc = "read"
    /\ SetParse(parseBegin(Parse, source))
    /\ pc' = "parse"
    /\ round' = round + 1
    /\ UNCHANGED <<source, doc>>
    /\ UNCHANGED checkVars
    /\ UNCHANGED writeVars

\* one round of the loop of parseImpl
ParseRound ==
    /\ pc = "parse"
    /\ \E r \in {parseRound(Parse)} :
           /\ SetParse(r.P)
           /\ pc' = IF Failed(r.P) THEN "error" ELSE IF r.done THEN "done" ELSE "parse"
    /\ round' = round + 1
    /\ UNCHANGED <<source, doc>>
    /\ UNCHANGED checkVars
    /\ UNCHANGED writeVars

ParseNext == Read \/ ParseRound

ParseInit ==
    ParseInitWith(ElementDocs \cup StructureDocs,
                  {EmptyFilter}, {TagUpperBound}, {DefaultMaxDepth})

SpecParse == ParseInit /\ [][ParseNext]_vars

-----------------------------------------------------------------------------
(* Claims about the parser *)

Root == heap[file.root]

\* C4: parsing <N K='V'>T</N> with an empty filter succeeds and gives a root
\* whose first child is named N, has the one attribute K with value V, and
\* has the text T.
C4_ElementIsParsed ==
    \A N \in ElementNames, K \in AttributeKeys, V \in AttributeValues, T \in ElementTexts :
        (doc = ElementDoc(N, K, V, T) /\ pc \in {"done", "error"}) =>
            /\ pc = "done"
            /\ Len(Root.children) >= 1
            /\ LET a == heap[Root.children[1]]
               IN  /\ a.name = N
                   /\ a.attributes = <<Attr(K, V)>>
                   /\ a.text = T

IsBlank(run) == \A i \in 1..Len(run) : isWhiteSpace(run[i])

\* a run of text between tags, as the one construct it stands for
Flush(run) == IF IsBlank(run) THEN <<>> ELSE <<Text(run)>>

\* what a document holds, in source order: the start tags without their
\* attributes, the end tags, and each run of text that is not blank; an
\* element without content is a start tag and an end tag
RECURSIVE Structure(_, _)
Structure(items, run) ==
    IF items = <<>> THEN Flush(run)
    ELSE LET it == Head(items)
         IN  CASE it.kind = "text" -> Structure(Tail(items), run \o it.text)
               [] it.kind = "open" ->
                    Flush(run) \o <<Open(it.name, <<>>)>> \o Structure(Tail(items), <<>>)
               [] it.kind = "empty" ->
                    Flush(run) \o <<Open(it.name, <<>>), Close(it.name)>>
                        \o Structure(Tail(items), <<>>)
               [] it.kind = "close" ->
                    Flush(run) \o <<Close(it.name)>> \o Structure(Tail(items), <<>>)
               [] it.kind = "prolog" -> Flush(run) \o Structure(Tail(items), <<>>)

\* tags nest and match, there is one outermost element and no text outside it
RECURSIVE Nested(_, _, _)
Nested(items, open, roots) ==
    IF items = <<>> THEN open = <<>> /\ roots = 1
    ELSE LET it == Head(items)
             r  == IF open = <<>> THEN roots + 1 ELSE roots
         IN  CASE it.kind = "text" ->
                    (open # <<>> \/ IsBlank(it.text)) /\ Nested(Tail(items), open, roots)
               [] it.kind = "open" -> Nested(Tail(items), Append(open, it.name), r)
               [] it.kind = "empty" -> Nested(Tail(items), open, r)
               [] it.kind = "close" ->
                    /\ open # <<>>
                    /\ open[Len(open)] = it.name
                    /\ Nested(Tail(items), SubSeq(open, 1, Len(open) - 1), roots)
               [] it.kind = "prolog" -> FALSE

WellFormed(items) ==
    IF items # <<>> /\ Head(items).kind = "prolog"
    THEN Nested(Tail(items), <<>>, 0)
    ELSE Nested(items, <<>>, 0)

\* the tree below a node read back in child order
RECURSIVE TreeItems(_, _)
RECURSIVE ChildItems(_, _)
ChildItems(h, kids) ==
    IF kids = <<>> THEN <<>>
    ELSE TreeItems(h, Head(kids)) \o ChildItems(h, Tail(kids))

TreeItems(h, id) ==
    IF h[id].name = TextNodeName /\ h[id].children = <<>>
    THEN <<Text(h[id].text)>>
    ELSE <<Open(h[id].name, <<>>)>> \o ChildItems(h, h[id].children) \o <<Close(h[id].name)>>

ChildNames(h, id) == [i \in 1..Len(h[id].children) |-> h[h[id].children[i]].name]

\* C5: after a well-formed document is parsed with an empty filter, the
\* children of every element are in source order and every run of text that
\* is not blank is one _text_node child at its place among them.
C5_ChildrenInSourceOrder ==
    (pc = "done" /\ WellFormed(doc))
        => ChildItems(heap, Root.children) = Structure(doc, <<>>)

\* <a>A<b>B</b>A</a> parsed: a has the children _text_node, b, _text_node
\* and b has one _text_node
C5_Witness ==
    /\ pc = "done"
    /\ doc = <<Open(<<"a">>, <<>>), Text(<<"A">>), Open(<<"b">>, <<>>), Text(<<"B">>),
               Close(<<"b">>), Text(<<"A">>), Close(<<"a">>)>>
    /\ Len(Root.children) = 1
    /\ ChildNames(heap, Root.children[1]) = <<TextNodeName, <<"b">>, TextNodeName>>
    /\ ChildNames(heap, heap[Root.children[1]].children[2]) = <<TextNodeName>>

\* the four tokens at position c spell an end tag
IsEndTagAt(toks, c) ==
    /\ Len(toks) >= c + 4
    /\ toks[c + 1].type = "TOK_ST_TAG"
    /\ toks[c + 2].type = "TOK_SLASH"
    /\ toks[c + 3].type = "TOK_IDENTIFIER"
    /\ toks[c + 4].type = "TOK_EN_TAG"

\* the round of the parse loop that meets the end tag </X>
EndTagRound(X) ==
    /\ pc = "parse"
    /\ IsEndTagAt(tokens', file.cursor)
    /\ X = string(scanner', tokens'[file.cursor + 3].index)

TopOfStack == file.stack[Len(file.stack)]

\* C10: an end tag </X> is accepted only when X is the name of the node on
\* top of the construction stack, which is then popped and attached to the
\* node below it; in every other case, the stack holding only the root
\* included, the parse ends with the mismatch error naming both tags and no
\* node gains a child.
C10_EndTagMustMatchTop ==
    [][\A X \in {string(scanner', tokens'[i].index) : i \in 1..Len(tokens')} :
          EndTagRound(X) =>
              IF X = heap[TopOfStack].name
              THEN /\ pc' = "parse"
                   /\ Len(file.stack) > 1
                   /\ file'.stack = SubSeq(file.stack, 1, Len(file.stack) - 1)
                   /\ heap'[file'.stack[Len(file'.stack)]].children
                        = Append(heap[file.stack[Len(file.stack) - 1]].children, TopOfStack)
                   /\ file'.cursor = file.cursor + 4
              ELSE /\ pc' = "error"
                   /\ error' = Err("closing tag mis-match", <<heap[TopOfStack].name, X>>)
                   /\ \A i \in 1..Len(heap) :
                         Len(heap'[i].children) <= Len(heap[i].children)
                   /\ Len(heap') = Len(heap)]_vars

\* an end tag met with only the root on the stack, after an element was
\* closed and attached
C10_Witness ==
    /\ pc = "error"
    /\ error = Err("closing tag mis-match", <<<<>>, <<"a">>>>)
    /\ Len(Root.children) = 1
    /\ heap[Root.children[1]].name = <<"a">>

-----------------------------------------------------------------------------
(* Parsing under a small tag limit *)

MaxTagPieces == 4
MaxTagLimit == 4

\* pieces with every construct that creates a tag: a start tag, an element
\* without content, a run of text and the prolog
TagPieces == {
    <<Open(<<"a">>, <<>>)>>,
    <<Close(<<"a">>)>>,
    <<Text(<<"A">>)>>,
    <<Empty(<<"c">>, <<>>)>>,
    <<Prolog(<<>>)>>
}

TagLimitInit ==
    ParseInitWith(DocsOf(TagPieces, MaxTagPieces),
                  {EmptyFilter}, 0..MaxTagLimit, {DefaultMaxDepth})

SpecTagLimit == TagLimitInit /\ [][ParseNext]_vars

Count(items, kinds) == Cardinality({i \in 1..Len(items) : items[i].kind \in kinds})

\* the tags a document asks for: its elements, its runs of text that are not
\* blank, and its prologs
Creations(items) ==
    Count(Structure(items, <<>>), {"open", "text"}) + Count(items, {"prolog"})

TagLimitError == Err("maximum tag limit exceeded", <<>>)

\* C6: with the maximum tag count M the parse fails with the tag-limit error
\* only at the creation that takes the number of creations past M: a document
\* that asks for at most M tags is not rejected by the limit, and one that is
\* parsed to its end asked for at most M.
C6_TagLimitNotBeforeCrossed ==
    /\ error = TagLimitError => Creations(doc) > file.maxTags
    /\ pc = "done" => Creations(doc) <= file.maxTags

-----------------------------------------------------------------------------
(* Parsing under a small maximum depth *)

MaxNesting == 6

Opens(k) == [i \in 1..k |-> Open(<<"a">>, <<>>)]
Closes(k) == [i \in 1..k |-> Close(<<"a">>)]

\* k elements one inside the other around the innermost content
NestedDocs ==
    {Opens(k) \o inner \o Closes(k) :
        k \in 1..(MaxNesting + 1),
        inner \in {<<>>, <<Text(<<"A">>)>>, <<Empty(<<"c">>, <<>>)>>}}

DepthInit ==
    ParseInitWith(NestedDocs, {EmptyFilter}, {TagUpperBound}, 0..MaxNesting)

SpecDepth == DepthInit /\ [][ParseNext]_vars

\* the number of start tags open at once
RECURSIVE NestingFrom(_, _)
NestingFrom(items, open) ==
    IF items = <<>> THEN open
    ELSE LET it == Head(items)
             now == CASE it.kind = "open" -> open + 1
                      [] it.kind = "close" -> IF open > 0 THEN open - 1 ELSE 0
                      [] OTHER -> open
             rest == NestingFrom(Tail(items), now)
             here == IF it.kind = "empty" THEN open + 1 ELSE now
         IN  IF rest > here THEN rest ELSE here

NestingDepth(items) == NestingFrom(items, 0)

DepthError == Err("maximum stack depth exceeded", <<>>)

\* C7: with the maximum depth D, the parse of a document whose elements nest
\* deeper than D ends with the depth error and not with a tree.
C7_DeepNestingIsRejected ==
    (pc \in {"done", "error"} /\ NestingDepth(doc) > file.maxDepth)
        => (pc = "error" /\ error = DepthError)

-----------------------------------------------------------------------------
(* Parsing with a filter *)

\* elements a and b in any nesting, with text
FilterPieces == {
    <<Open(<<"a">>, <<>>)>>,
    <<Close(<<"a">>)>>,
    <<Open(<<"b">>, <<>>)>>,
    <<Close(<<"b">>)>>,
    <<Text(<<"A">>)>>
}

\* the names a filter lists, each with its type code
Filters == {
    <<"a">> :> 1,
    <<"b">> :> 2,
    (<<"a">> :> 1) @@ (<<"b">> :> 2),
    (<<"a">> :> 1) @@ (<<"b">> :> 2) @@ (TextNodeName :> 3)
}

FilterInit ==
    ParseInitWith(DocsOf(FilterPieces, MaxPieces),
                  Filters, {TagUpperBound}, {DefaultMaxDepth})

SpecFilter == FilterInit /\ [][ParseNext]_vars

\* what a filter F retains of a document: the constructs whose name F lists
\* and that do not lie beneath one it does not list; skip counts the start
\* tags open beneath the outermost one left out
RECURSIVE Keep(_, _, _)
Keep(items, F, skip) ==
    IF items = <<>> THEN <<>>
    ELSE LET it == Head(items)
         IN  CASE it.kind = "text" ->
                    IF skip = 0 /\ TextNodeName \in DOMAIN F
                    THEN <<it>> \o Keep(Tail(items), F, skip)
                    ELSE Keep(Tail(items), F, skip)
               [] it.kind = "open" ->
                    IF skip > 0 THEN Keep(Tail(items), F, skip + 1)
                    ELSE IF it.name \in DOMAIN F
                    THEN <<it>> \o Keep(Tail(items), F, 0)
                    ELSE Keep(Tail(items), F, 1)
               [] it.kind = "close" ->
                    IF skip > 0 THEN Keep(Tail(items), F, skip - 1)
                    ELSE <<it>> \o Keep(Tail(items), F, 0)

Retained(items, F) == Keep(Structure(items, <<>>), F, 0)

\* the type codes F gives to the retained constructs, in source order
RECURSIVE Codes(_, _)
Codes(items, F) ==
    IF items = <<>> THEN <<>>
    ELSE LET it == Head(items)
         IN  CASE it.kind = "open" -> <<F[it.name]>> \o Codes(Tail(items), F)
               [] it.kind = "text" -> <<F[TextNodeName]>> \o Codes(Tail(items), F)
               [] OTHER -> Codes(Tail(items), F)

\* the type codes of the tree below a node, the node first
RECURSIVE TreeCodes(_, _)
RECURSIVE ChildCodes(_, _)
ChildCodes(h, kids) ==
    IF kids = <<>> THEN <<>>
    ELSE TreeCodes(h, Head(kids)) \o ChildCodes(h, Tail(kids))

TreeCodes(h, id) == <<h[id].typeCode>> \o ChildCodes(h, h[id].children)

FilteredTreeIsRetained ==
    /\ ChildItems(heap, Root.children) = Retained(doc, file.filter)
    /\ ChildCodes(heap, Root.children) = Codes(Retained(doc, file.filter), file.filter)

\* C8: with a filter that is not empty, the tree of a document parsed without
\* an error holds exactly the constructs whose name the filter lists and that
\* do not lie beneath one it does not list, each with the type code the
\* filter gives its name and with its retained children in source order.
C8_FilteredTree ==
    (pc = "done" /\ DOMAIN file.filter # {}) => FilteredTreeIsRetained

\* every start tag of the document has its end tag
AllClosed(items) == Count(items, {"open"}) = Count(items, {"close"})

\* the same, of the documents that leave no element open
FilteredTreeOfClosedDocument ==
    (pc = "done" /\ DOMAIN file.filter # {} /\ AllClosed(doc)) => FilteredTreeIsRetained

-----------------------------------------------------------------------------
(* Writer.h, Writer.cpp: the writer.  A Writer is the record of its fields; *)
(* every method maps it to the record it leaves, _out grown by what it      *)
(* sent there.                                                              *)

\* Writer::setIndent, setIndentOffset, setShowXmlHeader, setMinify
setIndent(W, indent) == [W EXCEPT !.indentBy = Clamp(indent, 1, 16)]
setIndentOffset(W, indent) == [W EXCEPT !.indentOffset = Clamp(indent, 0, 80)]
setShowXmlHeader(W, value) == [W EXCEPT !.writeXml = value]
setMinify(W, value) == [W EXCEPT !.notMinify = ~value]

\* _out << chars
emit(W, chars) == [W EXCEPT !.out = @ \o chars]

\* _out << std::setw(n) << ' ': the blank, filled up to the width n
Pad(n) == [i \in 1..(IF n > 1 THEN n ELSE 1) |-> " "]

\* std::endl
Endl == <<"\n">>

\* the order in which an unordered_map hands out its pairs is not fixed; of
\* at most two pairs it is the order of insertion or the other one
AttributeOrders == {"inserted", "reversed"}

Reverse(seq) == [i \in 1..Len(seq) |-> seq[Len(seq) + 1 - i]]

Iterate(attributes, order) ==
    IF order = "inserted" THEN attributes ELSE Reverse(attributes)

\* the loop of Writer::writeAttributes
RECURSIVE writeAttributesLoop(_, _)
writeAttributesLoop(W, attr) ==
    IF attr = <<>> THEN W
    ELSE writeAttributesLoop(
             emit(W, <<" ">> \o Head(attr).key \o <<"=", "\"">>
                         \o Head(attr).value \o <<"\"">>),
             Tail(attr))

\* Writer::writeAttributes
writeAttributes(W, nodes, tag, order) ==
    IF tag = NullNode THEN W
    ELSE IF nodes[tag].attributes # <<>>
    THEN writeAttributesLoop(W, Iterate(nodes[tag].attributes, order))
    ELSE W

\* Node::hasText, Node::hasChildren
hasText(node) == node.text # <<>>
hasChildren(node) == node.children # <<>>

\* Writer::openTag
openTag(W, nodes, tag, order) ==
    IF tag = NullNode THEN W
    ELSE emit(writeAttributes(
                  emit(W, (IF W.notMinify /\ W.indent > 0 THEN Pad(W.indent) ELSE <<>>)
                              \o <<"<">> \o nodes[tag].name),
                  nodes, tag, order),
              <<">">> \o (IF W.notMinify /\ ~hasText(nodes[tag]) THEN Endl ELSE <<>>))

\* Writer::closeTag
closeTag(W, nodes, tag) ==
    IF tag = NullNode THEN W
    ELSE emit(W, (IF W.notMinify /\ ~hasText(nodes[tag]) /\ W.indent > 0
                  THEN Pad(W.indent) ELSE <<>>)
                     \o <<"<", "/">> \o nodes[tag].name \o <<">">>
                     \o (IF W.notMinify THEN Endl ELSE <<>>))

\* Writer::inlineTag
inlineTag(W, nodes, tag, order) ==
    IF tag = NullNode THEN W
    ELSE emit(writeAttributes(
                  emit(W, (IF W.notMinify THEN Pad(W.indent) ELSE <<>>)
                              \o <<"<">> \o nodes[tag].name),
                  nodes, tag, order),
              <<"/", ">">> \o (IF W.notMinify THEN Endl ELSE <<>>))

RECURSIVE writeTag(_, _, _, _)

\* the loop of Writer::writeFullTag over the children
RECURSIVE writeChildren(_, _, _, _)
writeChildren(W, nodes, kids, order) ==
    IF kids = <<>> THEN W
    ELSE writeChildren(writeTag(W, nodes, Head(kids), order), nodes, Tail(kids), order)

\* a writeFullTag that writes the text after the children
writeFullTagTextLast(W, nodes, tag, order) ==
    IF tag = NullNode THEN W
    ELSE closeTag(emit(writeChildren(openTag(W, nodes, tag, order),
                                     nodes, nodes[tag].children, order),
                       nodes[tag].text),
                  nodes, tag)

\* Writer::writeFullTag
writeFullTag(W, nodes, tag, order) ==
    IF tag = NullNode THEN W
    ELSE closeTag(writeChildren(emit(openTag(W, nodes, tag, order), nodes[tag].text),
                                nodes, nodes[tag].children, order),
                  nodes, tag)

\* _indent += by
shiftIndent(W, by) == [W EXCEPT !.indent = @ + by]

\* Writer::writeTag
writeTag(W, nodes, tag, order) ==
    IF tag = NullNode THEN W
    ELSE shiftIndent(
             IF hasChildren(nodes[tag]) \/ hasText(nodes[tag])
             THEN writeFullTag(shiftIndent(W, W.indentBy), nodes, tag, order)
             ELSE inlineTag(shiftIndent(W, W.indentBy), nodes, tag, order),
             0 - W.indentBy)

XmlHeader ==
    <<"<", "?", "x", "m", "l", " ", "v", "e", "r", "s", "i", "o", "n", "=",
      "\"", "1", ".", "0", "\"", "?", ">">> \o Endl

\* Writer::write(output): the Writer it leaves; all of _out goes to output
write(W, nodes, order) ==
    writeTag([(IF W.writeXml THEN emit(W, XmlHeader) ELSE W)
                 EXCEPT !.indent = W.indentOffset - W.indentBy],
             nodes, W.root, order)

\* Writer::toStream(dest, root, minify, indent, offset): what dest receives
toStream(nodes, root, minify, indent, offset, order) ==
    write(setIndentOffset(
              setIndent(setShowXmlHeader(setMinify(NewWriter(root), minify), FALSE), indent),
              offset),
          nodes, order).out

\* Writer::toString(dest, root, minify, indent, offset)
toString(nodes, root, minify, indent, offset, order) ==
    toStream(nodes, root, minify, indent, offset, order)

-----------------------------------------------------------------------------
(* Writing a parsed tree and reading what was written *)

\* the loop of File::parseImpl run to its end
RECURSIVE parseLoop(_)
parseLoopStep(r) == IF r.done THEN r.P ELSE parseLoop(r.P)

parseLoop(P) == parseLoopStep(parseRound(P))

\* File::read(stream): parseImpl as a whole
read(P, input) == parseLoop(parseBegin(P, input))

\* an element with two attributes, elements without content and with text,
\* and text of one letter
RoundTripPieces == {
    <<Open(<<"a">>, <<Attr(<<"x">>, <<"1">>), Attr(<<"y">>, <<"2">>)>>)>>,
    <<Close(<<"a">>)>>,
    <<Empty(<<"b">>, <<Attr(<<"x">>, <<"1">>)>>)>>,
    <<Text(<<"A">>)>>,
    <<Open(<<"c">>, <<>>), Text(<<"B">>), Close(<<"c">>)>>
}

RoundTripDocs == {d \in DocsOf(RoundTripPieces, MaxPieces) : WellFormed(d)}

\* the indent widths and offsets handed to the writer
WriteIndents == {0, 2}
WriteOffsets == {0, 3}

RoundTripInit ==
    ParseInitWith(RoundTripDocs, {EmptyFilter}, {TagUpperBound}, {DefaultMaxDepth})

\* Writer::toString(dest, top, false, indent, offset) on the top element of
\* the parsed tree
WriteTop ==
    /\ pc = "done"
    /\ Root.children # <<>>
    /\ \E indent \in WriteIndents, offset \in WriteOffsets, order \in AttributeOrders :
           written' = toString(heap, Root.children[1], FALSE, indent, offset, order)
    /\ pc' = "written"
    /\ UNCHANGED <<source, round, writer, reread, returned, call>>
    /\ UNCHANGED checkVars
    /\ UNCHANGED scanVars
    /\ UNCHANGED <<doc, file, heap, depth>>

\* a second File, constructed as the first one was, reads the written text
Reread ==
    /\ pc = "written"
    /\ reread' = read(NewParse(file.filter, file.maxTags, file.maxDepth), written)
    /\ pc' = "reread"
    /\ UNCHANGED <<source, round, writer, written, returned, call>>
    /\ UNCHANGED checkVars
    /\ UNCHANGED scanVars
    /\ UNCHANGED <<doc, file, heap, depth>>

RoundTripNext == Read \/ ParseRound \/ WriteTop \/ Reread

SpecRoundTrip == RoundTripInit /\ [][RoundTripNext]_vars

\* a tree as a value: names, attributes in no order, text and children
RECURSIVE Canon(_, _)
Canon(h, id) ==
    [name |-> h[id].name,
     attributes |-> {h[id].attributes[i] : i \in 1..Len(h[id].attributes)},
     text |-> h[id].text,
     children |-> [i \in 1..Len(h[id].children) |-> Canon(h, h[id].children[i])]]

RereadRoot == reread.nodes[reread.file.root]

RereadIsIsomorphic ==
    /\ reread.error = NoError
    /\ RereadRoot.children # <<>>
    /\ Canon(reread.nodes, RereadRoot.children[1]) = Canon(heap, Root.children[1])

\* C9: the top element of a parsed tree, written in non-minify mode and read
\* again, gives a tree with the same names, attributes, text and children;
\* the documents have attribute values of one digit and text of one letter.
C9_RoundTrip == pc = "reread" => RereadIsIsomorphic

\* the same, of the documents without text
RoundTripWithoutText ==
    (pc = "reread" /\ Count(doc, {"text"}) = 0) => RereadIsIsomorphic

-----------------------------------------------------------------------------
(* Start tags and prologs with many attributes *)

MaxAttributes == 13

Letters ==
    <<"a", "b", "c", "d", "e", "f", "g", "h", "i", "j", "k", "l", "m", "n", "o", "p">>

\* k attributes with k names, each with the value 1
DistinctAttrs(k) == [i \in 1..k |-> Attr(<<Letters[i]>>, <<"1">>)]

\* k attributes of which the last repeats the name of attribute p, with the
\* value 2
RepeatAttrs(k, p) == DistinctAttrs(k - 1) \o <<Attr(<<Letters[p]>>, <<"2">>)>>

AttributeLists ==
    {DistinctAttrs(k) : k \in 0..MaxAttributes}
        \cup UNION {{RepeatAttrs(k, p) : p \in 1..(k - 1)} : k \in 2..MaxAttributes}

\* an element at nesting depth 1 that carries the attributes, as an element
\* without content and as a start tag with its end tag, and a prolog that
\* carries them before an element
AttributeDocs ==
    {<<Empty(<<"t">>, attrs)>> : attrs \in AttributeLists}
        \cup {<<Open(<<"t">>, attrs), Close(<<"t">>)>> : attrs \in AttributeLists}
        \cup {<<Prolog(attrs), Empty(<<"t">>, <<>>)>> : attrs \in AttributeLists}

AttributesInit ==
    ParseInitWith(AttributeDocs, {EmptyFilter}, {TagUpperBound}, {DefaultMaxDepth})

SpecAttributes == AttributesInit /\ [][ParseNext]_vars

\* the tag that carries the attributes is the first construct of the document
Carrier == doc[1]

CarrierName == IF Carrier.kind = "prolog" THEN <<"x", "m", "l">> ELSE Carrier.name

\* the place of the first attribute whose name an earlier attribute has, or 0
FirstRepeat(attrs) ==
    LET again == {j \in 1..Len(attrs) : \E i \in 1..(j - 1) : attrs[i].key = attrs[j].key}
    IN  IF again = {} THEN 0 ELSE CHOOSE j \in again : \A k \in again : j <= k

\* the value of the first attribute of that name
FirstValue(attrs, key) ==
    attrs[CHOOSE i \in 1..Len(attrs) :
              attrs[i].key = key /\ \A j \in 1..(i - 1) : attrs[j].key # key].value

\* the node created for the carrier is the first one after the root
CarrierNode == heap[2]

DuplicateIsRejected ==
    LET key == Carrier.attrs[FirstRepeat(Carrier.attrs)].key
    IN  /\ pc = "error"
        /\ error = Err("duplicate attribute", <<CarrierName, key>>)
        /\ Root.children = <<>>
        /\ \E i \in 1..Len(CarrierNode.attributes) :
              CarrierNode.attributes[i] =
                  [key |-> key, value |-> FirstValue(Carrier.attrs, key)]

\* C11: a start tag or a prolog that repeats an attribute name ends the parse
\* with the duplicate-attribute error at the second occurrence of the name;
\* the first value is kept and the element is not attached to the tree.
C11_DuplicateAttributeIsFatal ==
    (pc \in {"done", "error"} /\ FirstRepeat(Carrier.attrs) # 0) => DuplicateIsRejected

\* the same, of the repeats the depth guard lets the rule reach: the guard
\* is at 4 in a start tag and at 2 in a prolog before the attributes
GuardBefore == IF Carrier.kind = "prolog" THEN 2 ELSE 4

DuplicateWithinDepthIsFatal ==
    (/\ pc \in {"done", "error"}
     /\ FirstRepeat(Carrier.attrs) # 0
     /\ GuardBefore + FirstRepeat(Carrier.attrs) <= file.maxDepth) => DuplicateIsRejected

-----------------------------------------------------------------------------
(* Parses that end with an error of each kind *)

MaxErrorPieces == 3

\* pieces that lead to grammar errors (tags that do not match), to scan
\* errors (a name that begins with _) and, under small limits, to
\* resource-limit errors
ErrorPieces == {
    <<Open(<<"a">>, <<>>)>>,
    <<Close(<<"a">>)>>,
    <<Close(<<"b">>)>>,
    <<Text(<<"A">>)>>,
    <<Empty(<<"c">>, <<>>)>>,
    <<Open(<<"_">>, <<>>)>>,
    <<Prolog(<<>>)>>
}

ErrorFilters == {EmptyFilter, <<"a">> :> 1}

\* a tag limit that allows two creations and the default one
ErrorTagLimits == {3, TagUpperBound}

\* a depth that no start tag stays within and the default one
ErrorDepths == {3, DefaultMaxDepth}

ErrorsInit ==
    ParseInitWith(DocsOf(ErrorPieces, MaxErrorPieces),
                  ErrorFilters, ErrorTagLimits, ErrorDepths)

SpecErrors == ErrorsInit /\ [][ParseNext]_vars

\* the nodes of the tree below and with a node
RECURSIVE TreeIds(_, _)
TreeIds(h, id) == {id} \cup UNION {TreeIds(h, h[id].children[i]) : i \in 1..Len(h[id].children)}

ScanErrors == {"unknown character parsed", "unexpected end of file", "comment"}
LimitErrors == {"maximum tag limit exceeded", "maximum stack depth exceeded"}

C13_NoPartialTree == pc = "error" => Root.children = <<>>

-----------------------------------------------------------------------------
(* File::detachRead *)

\* a detachRoot that leaves the File the owner of the root
detachRootStillOwned(P) == P

\* a detachRoot that keeps the pointer to the root
detachRootKeepsPointer(P) == [P EXCEPT !.file.isAttached = FALSE]

\* File::detachRoot; the caller receives the old P.file.root
detachRoot(P) == [P EXCEPT !.file.isAttached = FALSE, !.file.root = NullNode]

\* File::~File
destroyFile(P) ==
    IF P.file.isAttached /\ P.file.root # NullNode
    THEN [P EXCEPT !.nodes = deleteNode(@, P.file.root), !.file.root = NullNode]
    ELSE [P EXCEPT !.file.root = NullNode]

\* File::detachRead, after fp.read: the exception is caught and logged and
\* null returned, or the root is detached and returned; then fp goes out of
\* scope
detachReadEnd(P) ==
    IF Failed(P)
    THEN [ret |-> NullNode, P |-> destroyFile(P)]
    ELSE [ret |-> P.file.root, P |-> destroyFile(detachRoot(P))]

\* File::detachRead(filter, filterSize, input, readName, maxTags, maxDepth)
detachRead(P, input) == detachReadEnd(read(P, input))

DetachInit ==
    /\ pc = "detach"
    /\ ParseStateWith(DocsOf(ErrorPieces, MaxErrorPieces),
                      ErrorFilters, {TagUpperBound}, {DefaultMaxDepth})

\* a call of File::detachRead
DetachRead ==
    /\ pc = "detach"
    /\ \E r \in {detachRead(Parse, source)} :
           /\ SetParse(r.P)
           /\ returned' = r.ret
    /\ pc' = "detached"
    /\ UNCHANGED <<source, round, writer, doc, written, reread, call>>
    /\ UNCHANGED checkVars

DetachNext == DetachRead

SpecDetach == DetachInit /\ [][DetachNext]_vars

\* C14: detachRead returns to its caller whatever the input; it returns null
\* exactly when the parse raised an error, and otherwise the root of the
\* parsed tree, which is alive with its whole tree after the parser that
\* built it is destroyed.
C14_DetachReadReturnsRootOrNull ==
    pc = "detached" =>
        /\ returned = NullNode <=> error # NoError
        /\ returned # NullNode =>
              /\ heap[returned].name = <<>>
              /\ heap[returned].parent = NullNode
              /\ \A id \in TreeIds(heap, returned) : heap[id].deleted = 0
              /\ file.root = NullNode

\* <a><c/></a> read: the root comes back with a and c beneath it
C14_Witness ==
    /\ pc = "detached"
    /\ returned # NullNode
    /\ doc = <<Open(<<"a">>, <<>>), Empty(<<"c">>, <<>>), Close(<<"a">>)>>
    /\ file.filter = EmptyFilter
    /\ Cardinality(TreeIds(heap, returned)) = 3

-----------------------------------------------------------------------------
(* Node.cpp: trees built by hand with addChild, sort and insert *)

\* NodeSortFunc: the comparisons handed to sort, by name
SortOrders == {"ascending", "descending"}

NameRank(name) == CHOOSE i \in 1..Len(Letters) : Letters[i] = name[1]

\* fnc(a, b)
Less(h, order, a, b) ==
    IF order = "ascending"
    THEN NameRank(h[a].name) < NameRank(h[b].name)
    ELSE NameRank(h[a].name) > NameRank(h[b].name)

\* std::stable_sort: x goes before the first element it is less than
RECURSIVE InsertStable(_, _, _, _)
InsertStable(h, order, sorted, x) ==
    IF sorted = <<>> THEN <<x>>
    ELSE IF Less(h, order, x, Head(sorted)) THEN <<x>> \o sorted
    ELSE <<Head(sorted)>> \o InsertStable(h, order, Tail(sorted), x)

RECURSIVE StableSort(_, _, _, _)
StableSort(h, order, todo, sorted) ==
    IF todo = <<>> THEN sorted
    ELSE StableSort(h, order, Tail(todo), InsertStable(h, order, sorted, Head(todo)))

\* Node::sort(fnc): the child list is put in order and nothing else changes
sort(nodes, id, order) ==
    [nodes EXCEPT ![id].children = StableSort(nodes, order, @, <<>>)]

MaxChildren == 2

\* three nodes that belong to no tree
LooseNodes == <<NewNode(<<"b">>), NewNode(<<"a">>), NewNode(<<"c">>)>>

NodeInit ==
    /\ pc = "node"
    /\ source = <<>>
    /\ doc = <<>>
    /\ file = NewFile(EmptyFilter, TagUpperBound, DefaultMaxDepth)
    /\ heap = LooseNodes
    /\ depth = 0
    /\ CheckIdle
    /\ ScanIdle
    /\ round = 0
    /\ WriteIdle

NodeUnchanged ==
    /\ pc' = pc
    /\ UNCHANGED <<source, round, doc, file, depth>>
    /\ UNCHANGED checkVars
    /\ UNCHANGED scanVars
    /\ UNCHANGED writeVars

\* p->addChild(c), for any two nodes
AddChild ==
    /\ pc = "node"
    /\ \E p \in 1..Len(heap), c \in 1..Len(heap) :
           /\ p # c
           /\ Len(heap[p].children) < MaxChildren
           /\ heap' = addChild(heap, p, c)
    /\ NodeUnchanged

\* p->sort(fnc)
Sort ==
    /\ pc = "node"
    /\ \E p \in 1..Len(heap), order \in SortOrders : heap' = sort(heap, p, order)
    /\ NodeUnchanged

NodeNext == AddChild \/ Sort

SpecNode == NodeInit /\ [][NodeNext]_vars

\* the child lists one after the other
RECURSIVE AllChildren(_, _)
AllChildren(h, id) ==
    IF id > Len(h) THEN <<>> ELSE h[id].children \o AllChildren(h, id + 1)

\* no node was added twice, to one parent or to two
EachAddedOnce(h) ==
    \A i, j \in 1..Len(AllChildren(h, 1)) :
        i # j => AllChildren(h, 1)[i] # AllChildren(h, 1)[j]

\* C15: after any sequence of addChild calls, the parent of every node in a
\* child list is the node that has the list, and no node is in the child
\* lists of two nodes.
C15_ParentOwnsChild ==
    pc = "node" =>
        \A p \in 1..Len(heap) : \A i \in 1..Len(heap[p].children) :
            /\ heap[heap[p].children[i]].parent = p
            /\ \A q \in 1..Len(heap) : \A j \in 1..Len(heap[q].children) :
                  heap[q].children[j] = heap[p].children[i] => q = p

NextLinksFollowChildOrder(h, p) ==
    \A i \in 1..Len(h[p].children) :
        h[h[p].children[i]].next =
            IF i < Len(h[p].children) THEN h[p].children[i + 1] ELSE NullNode

\* C16: after any sequence of addChild and sort calls on a node, each child
\* added once, the next link of child i is child i + 1 and that of the last
\* child is null.
C16_NextLinksFollowChildOrder ==
    (pc = "node" /\ EachAddedOnce(heap)) =>
        \A p \in 1..Len(heap) : NextLinksFollowChildOrder(heap, p)

\* the same, as long as sort has not changed the order of a child list:
\* a list that is in the order of the links stays so under addChild
C16_AddChildKeepsLinks ==
    [][(pc = "node" /\ EachAddedOnce(heap') /\ AddChild
          /\ \A p \in 1..Len(heap) : NextLinksFollowChildOrder(heap, p))
         => \A p \in 1..Len(heap) : NextLinksFollowChildOrder(heap', p)]_vars

-----------------------------------------------------------------------------
(* Node::insert called by hand *)

InsertKeys == {<<"x">>, <<"y">>, <<"z">>}
InsertValues == {<<"1">>, <<"2">>}

InsertInit ==
    /\ pc = "insert"
    /\ source = <<>>
    /\ doc = <<>>
    /\ file = NewFile(EmptyFilter, TagUpperBound, DefaultMaxDepth)
    /\ heap = <<NewNode(<<"a">>), NewNode(<<"b">>)>>
    /\ depth = 0
    /\ CheckIdle
    /\ ScanIdle
    /\ round = 0
    /\ WriteIdle

\* n->insert(key, value)
Insert ==
    /\ pc = "insert"
    /\ \E n \in 1..Len(heap), key \in InsertKeys, value \in InsertValues :
           /\ heap' = insert(heap, n, key, value)
           /\ call' = [op |-> "insert", node |-> n, key |-> key, value |-> value]
    /\ pc' = pc
    /\ UNCHANGED <<source, round, writer, doc, file, depth, written, reread, returned>>
    /\ UNCHANGED checkVars
    /\ UNCHANGED scanVars

InsertNext == Insert

SpecInsert == InsertInit /\ [][InsertNext]_vars

\* the attribute map of a node: its pairs in no order
AttributePairs(node) == {node.attributes[i] : i \in 1..Len(node.attributes)}

\* C17: insert(key, value) on a node that has an attribute of that key
\* leaves the attributes as they were, the old value kept; on a node without
\* the key it adds that pair and changes no other attribute.
C17_InsertKeepsFirstValue ==
    [][(pc = "insert" /\ call'.op = "insert") =>
          LET n == call'.node
              had == \E pair \in AttributePairs(heap[n]) : pair.key = call'.key
          IN  /\ \A m \in 1..Len(heap) : m # n => heap'[m] = heap[m]
              /\ Len(heap'[n].attributes) = Cardinality(AttributePairs(heap'[n]))
              /\ AttributePairs(heap'[n]) =
                    IF had THEN AttributePairs(heap[n])
                    ELSE AttributePairs(heap[n])
                             \cup {[key |-> call'.key, value |-> call'.value]}]_vars

\* insert(x, 2) was called on a node that had x = 1, and x is still 1
C17_Witness ==
    /\ pc = "insert"
    /\ call = [op |-> "insert", node |-> 1, key |-> <<"x">>, value |-> <<"2">>]
    /\ AttributePairs(heap[1]) = {[key |-> <<"x">>, value |-> <<"1">>]}

-----------------------------------------------------------------------------
(* Scanning content: the text between a '>' and the next '<' *)

MaxRunPieces == 2

\* what the runs of content are made of: two of the sequences, a letter and
\* white space
RunPieces == {
    <<"&", "l", "t", ";">>,
    <<"&", "a", "m", "p", ";">>,
    <<"s">>,
    <<" ">>,
    <<"\n">>
}

Runs == {Join(ps) : ps \in SeqsUpTo(RunPieces, MaxRunPieces)}

\* '>' run '<' '>' run: two runs of content, the second one up to the end of
\* the input
ContentInput(r1, r2) == <<">">> \o r1 \o <<"<", ">">> \o r2

ContentInputs == {ContentInput(r1, r2) : r1 \in Runs, r2 \in Runs}

ContentInit == ScanInitWith(ContentInputs)

SpecContent == ContentInit /\ [][ScanNext]_vars

\* the two runs of the input
FirstOpen == CHOOSE i \in 1..Len(source) :
                 source[i] = "<" /\ \A j \in 1..(i - 1) : source[j] # "<"
FirstRun == SubSeq(source, 2, FirstOpen - 1)
SecondRun == SubSeq(source, FirstOpen + 2, Len(source))

TokenTypes == [i \in 1..Len(tokens) |-> tokens[i].type]

TextIf(run) == IF IsBlank(run) THEN <<>> ELSE <<run>>
TextTokenIf(run) == IF IsBlank(run) THEN <<>> ELSE <<"TOK_TEXT">>

TextTokens == {i \in 1..Len(tokens) : tokens[i].type = "TOK_TEXT"}

\* C18: the payload of each text token is its run of content with every
\* well-formed sequence replaced by its character.
C18_ContentIsDecoded ==
    pc = "eof" =>
        scanner.code = [i \in 1..Len(scanner.code) |->
                           Decoded((TextIf(FirstRun) \o TextIf(SecondRun))[i])]

\* C19: a run of content that is empty or all white space gives no token
\* and no entry of the text table; any other run gives one text token whose
\* index is the place of a new entry of the table, which holds the whole
\* run as it is in the input.
C19_OneTextTokenPerRun ==
    pc = "eof" =>
        /\ error = NoError
        /\ TokenTypes = <<"TOK_EN_TAG">> \o TextTokenIf(FirstRun)
                            \o <<"TOK_ST_TAG", "TOK_EN_TAG">> \o TextTokenIf(SecondRun)
                            \o <<"TOK_EOF">>
        /\ scanner.code = TextIf(FirstRun) \o TextIf(SecondRun)
        /\ \A i \in TextTokens :
              tokens[i].index = Cardinality({j \in TextTokens : j < i})

\* a blank run and then a run with blanks around a letter: one text token,
\* with index 0 and the run untrimmed
C19_Witness ==
    /\ pc = "eof"
    /\ source = ContentInput(<<" ", "\n">>, <<" ", "s">>)
    /\ Cardinality(TextTokens) = 1
    /\ scanner.code = <<<<" ", "s">>>>

-----------------------------------------------------------------------------
(* Scanning quoted strings with both quote characters *)

MaxQuoteLen == 5

QuoteChars == {"'", "\"", "a"}

\* every input of up to MaxQuoteLen characters that opens with a quote
QuoteInputs ==
    {<<q>> \o t : q \in {"'", "\""}, t \in SeqsUpTo(QuoteChars, MaxQuoteLen - 1)}

QuoteInit == ScanInitWith(QuoteInputs)

SpecQuotes == QuoteInit /\ [][ScanNext]_vars

\* the places after the first where the opening quote occurs again
SameQuoteAt == {i \in 2..Len(source) : source[i] = source[1]}

ClosingQuote == CHOOSE i \in SameQuoteAt : \A j \in SameQuoteAt : i <= j

\* C20: a string opened with one of the quotes ends at the next occurrence
\* of that same quote, the other quote in between being part of the
\* payload; an input that ends before it is a scan error and no token.
C20_StringEndsAtSameQuote ==
    Len(tokens) >= 1 =>
        IF SameQuoteAt = {}
        THEN pc = "error" /\ tokens[1].type # "TOK_STRING"
        ELSE /\ tokens[1].type = "TOK_STRING"
             /\ string(scanner, tokens[1].index) = SubSeq(source, 2, ClosingQuote - 1)

\* wherever the other quote is not in the way, the claim holds
StringEndsAtSameQuote ==
    (\A i \in 2..Len(source) : source[i] \in {source[1], "a"})
        => C20_StringEndsAtSameQuote

-----------------------------------------------------------------------------
(* Scanning symbols *)

MaxSymbolLen == 3

SymbolStarts == {"a", "x", "1", ":"}
SymbolChars == {"m", "l", "1", "_", ":"}
SymbolEnds == {<<>>, <<"=">>, <<" ", "b">>}

\* a first character, up to MaxSymbolLen more characters of a name, and what
\* ends the name
SymbolInputs ==
    {<<c>> \o t \o e : c \in SymbolStarts,
                       t \in SeqsUpTo(SymbolChars, MaxSymbolLen),
                       e \in SymbolEnds}

SymbolInit == ScanInitWith(SymbolInputs)

SpecSymbols == SymbolInit /\ [][ScanNext]_vars

\* the length of the longest run of identifier characters s starts with
RECURSIVE RunLength(_)
RunLength(s) ==
    IF s # <<>> /\ isValidIdentifier(Head(s)) THEN 1 + RunLength(Tail(s)) ELSE 0

SymbolRun == SubSeq(source, 1, RunLength(source))

AfterSymbolRun == SubSeq(source, RunLength(source) + 1, Len(source))

\* C21: the first token of an input that starts with a letter, a digit or
\* ':' is the xml keyword if the longest run of identifier characters is
\* xml, else an identifier with that run as its payload; after that scan
\* the stream starts at the character that ended the run.
C21_SymbolIsMaximalRun ==
    Len(tokens) >= 1 =>
        /\ error = NoError \/ Len(tokens) > 1
        /\ IF SymbolRun = <<"x", "m", "l">>
           THEN tokens[1].type = "TOK_KW_XML"
           ELSE /\ tokens[1].type = "TOK_IDENTIFIER"
                /\ string(scanner, tokens[1].index) = SymbolRun
        /\ Len(tokens) = 1 => scanner.stream = AfterSymbolRun

\* for the inputs that start with a letter the claim holds
SymbolFromLetter == isLetter(source[1]) => C21_SymbolIsMaximalRun

-----------------------------------------------------------------------------
(* Writing a parsed tree with Writer::toString *)

MaxWritePieces == 5

WriteDocs == {d \in DocsOf(RoundTripPieces, MaxWritePieces) : WellFormed(d)}

\* widths and offsets from the ends and the inside of the ranges the setters
\* clamp to
WriteWidths == {1, 2, 16}
WriteStarts == {0, 3, 80}

WriteInit ==
    ParseInitWith(WriteDocs, {EmptyFilter}, {TagUpperBound}, {DefaultMaxDepth})

\* Writer::toString(dest, top, minify, indent, offset) on the top element of
\* the parsed tree
WriteTree ==
    /\ pc = "done"
    /\ Root.children # <<>>
    /\ \E minify \in BOOLEAN, indent \in WriteWidths, offset \in WriteStarts,
          order \in AttributeOrders :
           /\ written' = toString(heap, Root.children[1], minify, indent, offset, order)
           /\ call' = [op |-> "toString", minify |-> minify, indent |-> indent,
                       offset |-> offset, order |-> order]
    /\ pc' = "written"
    /\ UNCHANGED <<source, round, writer, reread, returned>>
    /\ UNCHANGED checkVars
    /\ UNCHANGED scanVars
    /\ UNCHANGED fileVars

WriteNext == Read \/ ParseRound \/ WriteTree

SpecWrite == WriteInit /\ [][WriteNext]_vars

\* the node that was written
Top == Root.children[1]

\* the attributes as they are to appear in a tag
RECURSIVE AttributeText(_)
AttributeText(attrs) ==
    IF attrs = <<>> THEN <<>>
    ELSE <<" ">> \o Head(attrs).key \o <<"=", "\"">> \o Head(attrs).value \o <<"\"">>
             \o AttributeText(Tail(attrs))

\* the text of a subtree by the rule: one self-closed tag for a node without
\* children and text; else the opening tag, the text, the children in their
\* order and the closing tag
RECURSIVE Rendering(_, _, _)
RenderingOfAll(h, kids, order) ==
    Join([i \in 1..Len(kids) |-> Rendering(h, kids[i], order)])

Rendering(h, id, order) ==
    LET tag == <<"<">> \o h[id].name \o AttributeText(Iterate(h[id].attributes, order))
    IN  IF h[id].children = <<>> /\ h[id].text = <<>>
        THEN tag \o <<"/", ">">>
        ELSE tag \o <<">">> \o h[id].text \o RenderingOfAll(h, h[id].children, order)
                 \o <<"<", "/">> \o h[id].name \o <<">">>

IsSpace(ch) == ch \in {" ", "\n"}

\* the place of the first character of s that is not white space, or
\* Len(s) + 1
FirstInk(s) ==
    LET ink == {i \in 1..Len(s) : ~IsSpace(s[i])}
    IN  IF ink = {} THEN Len(s) + 1 ELSE CHOOSE i \in ink : \A j \in ink : i <= j

\* the character at place i of s is a line end, or white space in a run that
\* stands before a tag
Squeezed(s, i) ==
    \/ s[i] = "\n"
    \/ /\ IsSpace(s[i])
       /\ LET ink == i - 1 + FirstInk(SubSeq(s, i, Len(s)))
          IN  ink <= Len(s) /\ s[ink] = "<"

\* s without its line ends and without the white space that stands before a
\* tag
Squeeze(s) ==
    LET kept == SelectSeq([i \in 1..Len(s) |-> i], LAMBDA i : ~Squeezed(s, i))
    IN  [k \in 1..Len(kept) |-> s[kept[k]]]

\* the tags of s that open an element or are self-closed
TagsIn(s) == {i \in 1..(Len(s) - 1) : s[i] = "<" /\ s[i + 1] # "/"}

\* C22: what the writer sends for a subtree is, line ends and indentation
\* aside, a self-closed tag for a node without children and text, and else
\* the opening tag, the text as it is, the children in child order by the
\* same rule and the closing tag; there is one tag per node of the subtree.
C22_RenderingRule ==
    pc = "written" =>
        /\ Squeeze(written) = Rendering(heap, Top, call.order)
        /\ Cardinality(TagsIn(written)) = Cardinality(TreeIds(heap, Top))

\* an element with attributes, text and children is written, minified
C22_Witness ==
    /\ pc = "written"
    /\ call.minify
    /\ heap[Top].text # <<>>
    /\ Len(heap[Top].children) >= 2
    /\ Len(heap[Top].attributes) = 2
    /\ \E i \in 1..Len(heap[Top].children) : heap[heap[Top].children[i]].children = <<>>
                                               /\ heap[heap[Top].children[i]].text = <<>>

-----------------------------------------------------------------------------
(* Writing through File::writeImpl *)

\* enum WriteFormat
Minify == 1
Indent2 == 2
Indent4 == 4

\* format & flag, of a flag that is one bit
HasFlag(format, flag) == (format \div flag) % 2 = 1

\* the Writer as writeImpl sets it up
writeImplWriter(wn, format) ==
    setShowXmlHeader(
        setIndent(setMinify(NewWriter(wn), HasFlag(format, Minify)),
                  IF HasFlag(format, Indent2) THEN 2
                  ELSE IF HasFlag(format, Indent4) THEN 4 ELSE 0),
        FALSE)

WriteResult(out, crashed) == [out |-> out, crashed |-> crashed]

\* File::writeImpl: what output can receive.  front() of an empty vector is
\* undefined; the read gives a null pointer, so that nothing is written, or
\* the process ends
writeImpl(P, format, order) ==
    IF P.file.root = NullNode THEN {WriteResult(<<>>, FALSE)}
    ELSE IF P.nodes[P.file.root].children = <<>>
    THEN {WriteResult(<<>>, FALSE), WriteResult(<<>>, TRUE)}
    ELSE {WriteResult(write(writeImplWriter(P.nodes[P.file.root].children[1], format),
                            P.nodes, order).out,
                      FALSE)}

Formats == 0..7

FileWriteInit ==
    ParseInitWith(WriteDocs, {EmptyFilter}, {TagUpperBound}, {DefaultMaxDepth})

\* File::write(output, format) after a parse
WriteFile ==
    /\ pc = "done"
    /\ \E format \in Formats, order \in AttributeOrders :
        \E r \in writeImpl(Parse, format, order) :
           /\ written' = r.out
           /\ call' = [op |-> "write", format |-> format, order |-> order]
           /\ pc' = IF r.crashed THEN "crashed" ELSE "written"
    /\ UNCHANGED <<source, round, writer, reread, returned>>
    /\ UNCHANGED checkVars
    /\ UNCHANGED scanVars
    /\ UNCHANGED fileVars

FileWriteNext == Read \/ ParseRound \/ WriteFile

SpecFileWrite == FileWriteInit /\ [][FileWriteNext]_vars

\* no tag of s has a blank right before it
NoIndentation(s) == \A i \in 1..Len(s) : s[i] = "<" => (i = 1 \/ s[i - 1] # " ")

\* C23: written with format flags that have neither Indent2 nor Indent4,
\* the output has no blank before any tag.
C23_NoIndentFlagsNoIndentation ==
    (/\ pc = "written"
     /\ ~HasFlag(call.format, Indent2)
     /\ ~HasFlag(call.format, Indent4)) => NoIndentation(written)

\* with the Minify flag there is no indentation, whatever the other flags
MinifiedHasNoIndentation ==
    (pc = "written" /\ HasFlag(call.format, Minify)) => NoIndentation(written)

-----------------------------------------------------------------------------
(* Documents that start with a prolog *)

MaxPrologAttributes == 15
MaxPrologBody == 3

PrologBodies == {d \in DocsOf(RoundTripPieces, MaxPrologBody) : WellFormed(d)}

\* a prolog with k attributes of k names before a well-formed body
PrologDocs ==
    {<<Prolog(DistinctAttrs(k))>> \o body :
        k \in 0..MaxPrologAttributes, body \in PrologBodies}

PrologInit ==
    ParseInitWith(PrologDocs, {EmptyFilter}, {TagUpperBound}, {DefaultMaxDepth})

SpecProlog == PrologInit /\ [][ParseNext]_vars

\* the parse of the document without its prolog, by a File constructed as
\* this one was
WithoutProlog ==
    read(NewParse(file.filter, file.maxTags, file.maxDepth), RenderAll(Tail(doc)))

SameTreeAsWithoutProlog ==
    /\ pc = "done"
    /\ ~Failed(WithoutProlog)
    /\ Canon(heap, file.root) = Canon(WithoutProlog.nodes, WithoutProlog.file.root)

\* the round of the loop that applies the prolog rule is the first one; it
\* leaves the stack as it was, the root without a child and the node it
\* created deleted
PrologRoundLeavesNoNode ==
    (pc = "parse" /\ file.cursor = 0 /\ pc' = "parse") =>
        /\ file'.stack = file.stack
        /\ heap'[file.root].children = <<>>
        /\ Len(heap') = 2
        /\ heap'[2].name = <<"x", "m", "l">>
        /\ heap'[2].deleted = 1

\* C24: a document that starts with a prolog is parsed to the tree its rest
\* is parsed to, and the round that applies the prolog rule leaves the
\* construction stack as it was and no node of the prolog in the tree.
C24_PrologLeavesNoTrace ==
    /\ [](pc \in {"done", "error"} => SameTreeAsWithoutProlog)
    /\ [][PrologRoundLeavesNoNode]_vars

\* the same, of the prologs the depth guard lets the rule finish: the guard
\* is at 2 before the attributes of a prolog
PrologWithinDepthLeavesNoTrace ==
    /\ []((pc \in {"done", "error"} /\ GuardBefore + Len(doc[1].attrs) <= file.maxDepth)
             => SameTreeAsWithoutProlog)
    /\ [][PrologRoundLeavesNoNode]_vars

-----------------------------------------------------------------------------
(* The loop of File::parseImpl on token streams of any shape *)

MaxLoopPieces == 3

\* an item whose characters go to the input as they are
Fragment(chars) == Text(chars)

\* parts of tags, in any order: the streams need not be documents
LoopPieces == {
    <<Fragment(<<"<", "a">>)>>,
    <<Fragment(<<" ", "x", "=", "'", "v", "'">>)>>,
    <<Fragment(<<">">>)>>,
    <<Fragment(<<"/", ">">>)>>,
    <<Fragment(<<"<", "/", "a", ">">>)>>,
    <<Fragment(<<"<", "?", "x", "m", "l">>)>>,
    <<Fragment(<<"?", ">">>)>>,
    <<Fragment(<<"T">>)>>,
    <<Fragment(<<"<">>)>>,
    <<Fragment(<<"=">>)>>,
    <<Fragment(<<"<", "b", "/", ">">>)>>
}

LoopDocs == DocsOf(LoopPieces, MaxLoopPieces)

LoopInit ==
    ParseInitWith(LoopDocs, {EmptyFilter}, {TagUpperBound}, {DefaultMaxDepth})

\* a step of read(): one is possible as long as read() has not returned,
\* and the steps of ParseNext are the steps that count one up
ReadStep == pc \in {"read", "parse"} /\ round' = round + 1

\* read() is one call that runs to its end: a step of it that can be taken
\* is taken
SpecLoop == LoopInit /\ [][ParseNext]_vars /\ WF_round(ReadStep)

\* a round after which the loop goes on has moved the cursor forward
RoundAdvancesCursor ==
    (pc = "parse" /\ pc' = "parse") => file'.cursor > file.cursor

\* C25: the loop of the parser ends, at the end-of-input token or with an
\* error, and every round that does not end it leaves the cursor greater
\* than it found it.
C25_LoopTerminates ==
    /\ <>(pc \in {"done", "error"})
    /\ [][RoundAdvancesCursor]_vars

\* the loop has ended at the end-of-input token after a round that moved
\* the cursor over a whole element
C25_Witness ==
    /\ pc = "done"
    /\ file.cursor >= 4
    /\ Root.children # <<>>

\* the loop has ended with an error after a round that moved the cursor
C25_WitnessError ==
    /\ pc = "error"
    /\ file.cursor > 0

-----------------------------------------------------------------------------
(* Who owns the root: File::detachRoot, File::tree and File::~File *)

InvalidPointer == Err("invalid pointer", <<>>)

\* File::tree: the root, or the exception
tree(P) ==
    IF P.file.root = NullNode
    THEN [ret |-> NullNode, error |-> InvalidPointer]
    ELSE [ret |-> P.file.root, error |-> NoError]

OwnerInit ==
    ParseInitWith(DocsOf(ErrorPieces, MaxErrorPieces),
                  ErrorFilters, {TagUpperBound}, {DefaultMaxDepth})

\* read() has returned or thrown, and the File is not yet destroyed
Alive == pc \in {"done", "error", "called"}

\* the root a first detachRoot handed out, or null
Detached == call.node

\* a call of File::detachRoot
DetachRoot ==
    /\ Alive
    /\ SetParse(detachRoot(Parse))
    /\ returned' = file.root
    /\ call' = [op |-> "detachRoot",
                node |-> IF Detached = NullNode THEN file.root ELSE Detached]
    /\ pc' = "called"
    /\ UNCHANGED <<source, round, writer, doc, written, reread>>
    /\ UNCHANGED checkVars

\* a call of File::tree
Tree ==
    /\ Alive
    /\ returned' = tree(Parse).ret
    /\ error' = tree(Parse).error
    /\ call' = [op |-> "tree", node |-> Detached]
    /\ pc' = "called"
    /\ UNCHANGED <<source, round, writer, written, reread, scanner, tokens>>
    /\ UNCHANGED checkVars
    /\ UNCHANGED fileVars

\* the File goes out of scope
Destroy ==
    /\ Alive
    /\ SetParse(destroyFile(Parse))
    /\ call' = [op |-> "destroy", node |-> Detached]
    /\ pc' = "destroyed"
    /\ UNCHANGED <<source, round, writer, doc, written, reread, returned>>
    /\ UNCHANGED checkVars

OwnerNext == Read \/ ParseRound \/ DetachRoot \/ Tree \/ Destroy

SpecOwner == OwnerInit /\ [][OwnerNext]_vars

\* after detachRoot: tree() raises and a second detachRoot returns null
DetachedIsGone ==
    (pc = "called" /\ Detached # NullNode) =>
        /\ file.root = NullNode
        /\ ~file.isAttached
        /\ call.op = "tree" => (error = InvalidPointer /\ returned = NullNode)

FirstDetachReturnsRoot ==
    (Alive /\ Detached = NullNode /\ call'.op = "detachRoot") =>
        /\ returned' = file.root
        /\ returned' # NullNode
        /\ heap' = heap

SecondDetachReturnsNull ==
    (Alive /\ Detached # NullNode /\ call'.op = "detachRoot") =>
        /\ returned' = NullNode
        /\ heap' = heap

\* the destructor leaves a detached tree as it is, and deletes the root and
\* every node beneath it once if the root was never detached
DestroyKeepsOrDeletes ==
    (Alive /\ pc' = "destroyed") =>
        IF Detached # NullNode
        THEN heap' = heap
        ELSE \A id \in 1..Len(heap) :
                 heap'[id].deleted =
                     heap[id].deleted + IF id \in TreeIds(heap, file.root) THEN 1 ELSE 0

\* C26: once detachRoot has returned the root, tree() raises an error, a
\* second detachRoot returns null and the destructor leaves the root and
\* all beneath it as they are; a File that was never detached deletes its
\* root and every node attached beneath it when it is destroyed.
C26_DetachTransfersOwnership ==
    /\ []DetachedIsGone
    /\ [][FirstDetachReturnsRoot]_vars
    /\ [][SecondDetachReturnsNull]_vars
    /\ [][DestroyKeepsOrDeletes]_vars

\* a File whose tree has an element with a child was detached and then
\* destroyed
C26_Witness ==
    /\ pc = "destroyed"
    /\ Detached # NullNode
    /\ heap[Detached].children # <<>>
    /\ heap[heap[Detached].children[1]].children # <<>>
    /\ heap[Detached].deleted = 0

\* a File with such a tree was destroyed without a detachRoot
C26_WitnessOwned ==
    /\ pc = "destroyed"
    /\ Detached = NullNode
    /\ \E id \in 2..Len(heap) : heap[id].parent = 1 /\ heap[id].deleted = 1

-----------------------------------------------------------------------------
(* Elements with several runs of text *)

MaxTextPieces == 4

\* two texts that differ, an element between runs of text, and blank text
TextPieces == {
    <<Open(<<"a">>, <<>>)>>,
    <<Close(<<"a">>)>>,
    <<Text(<<"A">>)>>,
    <<Empty(<<"c">>, <<>>), Text(<<"B">>)>>,
    <<Empty(<<"c">>, <<>>)>>,
    <<Text(<<" ">>)>>
}

TextDocs == DocsOf(TextPieces, MaxTextPieces)

TextInit == ParseInitWith(TextDocs, {EmptyFilter}, {TagUpperBound}, {DefaultMaxDepth})

SpecText == TextInit /\ [][ParseNext]_vars

\* the texts of the _text_node children of a node, in child order
TextChildren(h, id) ==
    SelectSeq([i \in 1..Len(h[id].children) |-> h[h[id].children[i]]],
              LAMBDA n : n.name = TextNodeName)

\* the text of a node is the text of its last _text_node child, if any
TextIsLastRun(h, id) ==
    LET runs == TextChildren(h, id)
    IN  h[id].text = IF runs = <<>> THEN <<>> ELSE runs[Len(runs)].text

\* a round of the loop that finds a text token at the cursor and raises no
\* error adds one node, a _text_node with the text of the token, as the
\* last child of the node on top of the stack, and gives that node the
\* text; of the other nodes at most a next-sibling link changes
TextRound ==
    (/\ pc = "parse"
     /\ pc' = "parse"
     /\ tokens'[file.cursor + 1].type = "TOK_TEXT") =>
        LET content == getCode(scanner', tokens'[file.cursor + 1].index)
            parent  == file.stack[Len(file.stack)]
            node    == Len(heap) + 1
        IN  /\ Len(heap') = node
            /\ file'.stack = file.stack
            /\ heap'[node].name = TextNodeName
            /\ heap'[node].text = content
            /\ heap'[node].children = <<>>
            /\ heap'[node].parent = parent
            /\ heap'[parent].children = Append(heap[parent].children, node)
            /\ heap'[parent].text = content
            /\ \A id \in 1..Len(heap) :
                  id # parent => [heap'[id] EXCEPT !.next = heap[id].next] = heap[id]

\* C27: each text token gives the node on top of the stack its text and one
\* more _text_node child with that text; an element of a parsed well-formed
\* document has its runs of text on its _text_node children, one each and in
\* order, and the last of them as its own text.
C27_TextOnParentAndChild ==
    /\ [][TextRound]_vars
    /\ []((pc = "done" /\ WellFormed(doc)) =>
             /\ ChildItems(heap, Root.children) = Structure(doc, <<>>)
             /\ \A id \in TreeIds(heap, file.root) :
                   heap[id].name # TextNodeName => TextIsLastRun(heap, id))

\* <a>A<c/>B</a> is parsed: a has the text B and the children _text_node
\* with A, c, and _text_node with B
C27_Witness ==
    /\ pc = "done"
    /\ doc = <<Open(<<"a">>, <<>>), Text(<<"A">>), Empty(<<"c">>, <<>>), Text(<<"B">>),
               Close(<<"a">>)>>
    /\ heap[Root.children[1]].text = <<"B">>
    /\ ChildNames(heap, Root.children[1]) = <<TextNodeName, <<"c">>, TextNodeName>>
    /\ heap[heap[Root.children[1]].children[1]].text = <<"A">>

-----------------------------------------------------------------------------
(* The two modes of the scanner *)

\* _defaultState: markup mode
InMarkup(sc) == sc.defaultState

LastType(toks) == IF toks = <<>> THEN "TOK_NULL" ELSE toks[Len(toks)].type

\* a call of scan has returned a token
Scanned == Len(tokens') = Len(tokens) + 1

\* content mode is entered by the calls that return '>', and by no other
EntersContentAtEndTag ==
    (Scanned /\ InMarkup(scanner)) =>
        (~InMarkup(scanner') <=> LastType(tokens') = "TOK_EN_TAG")

\* a call that begins in content mode ends in markup mode
LeavesContent == (Scanned /\ ~InMarkup(scanner)) => InMarkup(scanner')

\* a text token comes right after a '>' token
TextFollowsEndTag ==
    (Scanned /\ LastType(tokens') = "TOK_TEXT") => LastType(tokens) = "TOK_EN_TAG"

\* C28: the scanner starts in markup mode, goes to content mode exactly
\* with the calls that return '>', and is back in markup mode at the end of
\* every call that began in content mode; so a text token comes only right
\* after a '>' token, and never after a text token.
C28_ModesAlternate ==
    /\ [](tokens = <<>> => InMarkup(scanner))
    /\ [][EntersContentAtEndTag]_vars
    /\ [][LeavesContent]_vars
    /\ [][TextFollowsEndTag]_vars

\* a call that begins in content mode with a character left to read ends in
\* markup mode
LeavesContentUnlessAtEnd ==
    (Scanned /\ ~InMarkup(scanner) /\ scanner.stream # <<>>) => InMarkup(scanner')

\* all of the claim but for the calls made in content mode at the end of
\* the input
ModesAlternateBeforeEnd ==
    /\ [](tokens = <<>> => InMarkup(scanner))
    /\ [][EntersContentAtEndTag]_vars
    /\ [][LeavesContentUnlessAtEnd]_vars
    /\ [][TextFollowsEndTag]_vars

-----------------------------------------------------------------------------
(* Indentation of what Writer::toString writes *)

\* the place of the '>' that ends the tag that starts at i
TagEnd(s, i) == CHOOSE k \in i..Len(s) : s[k] = ">" /\ \A j \in i..(k - 1) : s[j] # ">"

IsSelfClosed(s, i) == s[TagEnd(s, i) - 1] = "/"

IsClosing(s, i) == s[i] = "<" /\ s[i + 1] = "/"

\* the number of elements that are open where the tag at i starts
DepthAt(s, i) ==
    Cardinality({j \in TagsIn(s) : j < i /\ ~IsSelfClosed(s, j)})
        - Cardinality({j \in 1..(i - 1) : IsClosing(s, j)})

\* the number of blanks right before place i
BlanksBefore(s, i) ==
    LET ink == {k \in 1..(i - 1) : s[k] # " "}
    IN  IF ink = {} THEN i - 1 ELSE i - 1 - (CHOOSE k \in ink : \A j \in ink : j <= k)

IndentedAt(i) ==
    BlanksBefore(written, i) = call.offset + DepthAt(written, i) * call.indent

\* C29: not minified, every opening tag and every self-closed tag at depth
\* d has exactly offset + d * width blanks before it; at depth 0 with
\* offset 0 it has none.
C29_TagsAreIndented ==
    (pc = "written" /\ ~call.minify) => \A i \in TagsIn(written) : IndentedAt(i)

\* the opening tags are indented so, and the self-closed tags that are due
\* at least one blank
TagsAreIndentedButAtZero ==
    (pc = "written" /\ ~call.minify) =>
        \A i \in TagsIn(written) :
            (~IsSelfClosed(written, i) \/ call.offset + DepthAt(written, i) * call.indent > 0)
                => IndentedAt(i)

-----------------------------------------------------------------------------
(* Text under a filter *)

\* filters that list elements only, and one that lists _text_node as well
TextFilters == {
    <<"a">> :> 1,
    <<"c">> :> 2,
    (<<"a">> :> 1) @@ (<<"c">> :> 2),
    (<<"a">> :> 1) @@ (<<"c">> :> 2) @@ (TextNodeName :> 3)
}

FilterTextInit ==
    ParseInitWith(TextDocs, TextFilters, {TagUpperBound}, {DefaultMaxDepth})

SpecFilterText == FilterTextInit /\ [][ParseNext]_vars

\* the same input read by a File without a filter: it creates the same
\* nodes in the same order, and attaches them all
Unfiltered == read(NewParse(EmptyFilter, file.maxTags, file.maxDepth), source)

ListsNoText == DOMAIN file.filter # {} /\ TextNodeName \notin DOMAIN file.filter

\* C30: parsed with a filter that lists names but not _text_node, the tree
\* has no _text_node, and each element in it has its last run of text that
\* is not blank as its text.
C30_TextPrunedButKept ==
    (pc = "done" /\ ListsNoText) =>
        \A id \in TreeIds(heap, file.root) :
            /\ heap[id].name # TextNodeName
            /\ id # file.root =>
                  /\ heap[id].text = Unfiltered.nodes[id].text
                  /\ TextIsLastRun(Unfiltered.nodes, id)

\* <a>A<c/>B</a> parsed with a filter that lists a and c: a is in the tree
\* with the text B and the one child c
C30_Witness ==
    /\ pc = "done"
    /\ ListsNoText
    /\ doc = <<Open(<<"a">>, <<>>), Text(<<"A">>), Empty(<<"c">>, <<>>), Text(<<"B">>),
               Close(<<"a">>)>>
    /\ Len(Root.children) = 1
    /\ heap[Root.children[1]].text = <<"B">>
    /\ ChildNames(heap, Root.children[1]) = <<<<"c">>>>

-----------------------------------------------------------------------------
(* Node::firstParentOf on parsed trees *)

\* a type asked for by name (const String&) or by code (const int64_t&)
ByName(name) == [by |-> "name", name |-> name, code |-> 0]
ByCode(code) == [by |-> "code", name |-> <<>>, code |-> code]

\* Node::isTypeOf(const char*) and Node::isTypeOf(int64_t)
isTypeOf(node, tag) ==
    IF tag.by = "name" THEN node.name = tag.name ELSE node.typeCode = tag.code

\* the loop of Node::firstParentOf, cur being the node it looks at
RECURSIVE firstParentOfFrom(_, _, _)
firstParentOfFrom(nodes, cur, tag) ==
    IF cur = NullNode THEN NullNode
    ELSE IF isTypeOf(nodes[cur], tag) THEN cur
    ELSE firstParentOfFrom(nodes, nodes[cur].parent, tag)

\* Node::firstParentOf(tag) on the node n: the loop starts at n
firstParentOf(nodes, n, tag) == firstParentOfFrom(nodes, n, tag)

MaxAncestorPieces == 4

AncestorPieces == {
    <<Open(<<"a">>, <<>>)>>,
    <<Open(<<"b">>, <<>>)>>,
    <<Close(<<"a">>)>>,
    <<Close(<<"b">>)>>
}

AncestorFilters == {EmptyFilter, (<<"a">> :> 1) @@ (<<"b">> :> 2)}

AncestorTags ==
    {ByName(<<"a">>), ByName(<<"b">>), ByName(<<"c">>), ByCode(1), ByCode(2), ByCode(3)}

AncestorInit ==
    ParseInitWith(DocsOf(AncestorPieces, MaxAncestorPieces),
                  AncestorFilters, {TagUpperBound}, {DefaultMaxDepth})

\* n->firstParentOf(tag) for a node n of the parsed tree
FirstParentOf ==
    /\ pc \in {"done", "called"}
    /\ \E n \in TreeIds(heap, file.root), tag \in AncestorTags :
           /\ returned' = firstParentOf(heap, n, tag)
           /\ call' = [op |-> "firstParentOf", node |-> n, tag |-> tag]
    /\ pc' = "called"
    /\ UNCHANGED <<source, round, writer, doc, written, reread>>
    /\ UNCHANGED checkVars
    /\ UNCHANGED scanVars
    /\ UNCHANGED fileVars

AncestorNext == Read \/ ParseRound \/ FirstParentOf

SpecAncestor == AncestorInit /\ [][AncestorNext]_vars

\* the nodes reached from n by one or more parent links, nearest first
RECURSIVE AncestorsOf(_, _)
AncestorsOf(h, n) ==
    IF h[n].parent = NullNode THEN <<>>
    ELSE <<h[n].parent>> \o AncestorsOf(h, h[n].parent)

\* the first node of a list that is of the type, or null
FirstOfType(h, ids, tag) ==
    IF \E i \in 1..Len(ids) : isTypeOf(h[ids[i]], tag)
    THEN ids[CHOOSE i \in 1..Len(ids) :
                 /\ isTypeOf(h[ids[i]], tag)
                 /\ \A j \in 1..(i - 1) : ~isTypeOf(h[ids[j]], tag)]
    ELSE NullNode

\* C31: firstParentOf(type) on a node n returns the nearest ancestor of n
\* whose type matches, null when no ancestor matches, and never n itself.
C31_FirstParentIsNearestAncestor ==
    pc = "called" =>
        /\ returned = FirstOfType(heap, AncestorsOf(heap, call.node), call.tag)
        /\ returned # call.node

\* what the code returns: the nearest node of the type among n and its
\* ancestors
FirstParentIsNearestFromSelf ==
    pc = "called" =>
        returned = FirstOfType(heap, <<call.node>> \o AncestorsOf(heap, call.node), call.tag)

\* on a node that is not itself of the type the claim holds
FirstParentOfOtherType ==
    (pc = "called" /\ ~isTypeOf(heap[call.node], call.tag)) =>
        /\ returned = FirstOfType(heap, AncestorsOf(heap, call.node), call.tag)
        /\ returned # call.node

-----------------------------------------------------------------------------
(* Line numbers of tokens *)

MaxLinePieces == 4

\* markup, a string, text, and the three line ends
LinePieces == {
    <<"<">>,
    <<"a">>,
    <<"'", "v", "'">>,
    <<">">>,
    <<"T">>,
    <<" ">>,
    <<"\n">>,
    <<"\r">>,
    <<"\r", "\n">>
}

LineInputs == {Join(ps) : ps \in SeqsUpTo(LinePieces, MaxLinePieces)}

LineInit == ScanInitWith(LineInputs)

SpecLines == LineInit /\ [][ScanNext]_vars

\* the line breaks among the first n characters of s, \r\n being one
RECURSIVE Breaks(_, _)
Breaks(s, n) ==
    IF n = 0 THEN 0
    ELSE Breaks(s, n - 1) +
         (IF s[n] = "\n" \/ (s[n] = "\r" /\ ~(n < Len(s) /\ s[n + 1] = "\n"))
          THEN 1 ELSE 0)

\* how many characters of the input a scanner has taken
Taken(sc) == Len(source) - Len(sc.stream)

\* how many characters a token stands for
Extent(sc, tok) ==
    CASE tok.type = "TOK_IDENTIFIER" -> Len(sc.strings[tok.index + 1])
      [] tok.type = "TOK_STRING" -> Len(sc.strings[tok.index + 1]) + 2
      [] tok.type = "TOK_TEXT" -> Len(sc.code[tok.index + 1])
      [] tok.type = "TOK_KW_XML" -> 3
      [] tok.type = "TOK_EOF" -> 0
      [] OTHER -> 1

\* the token a step has scanned
NewToken == tokens'[Len(tokens')]

\* the characters of the input that stand before that token
Before == Taken(scanner') - Extent(scanner', NewToken)

\* a call of scan that gave a token other than the end of input
ScannedToken ==
    /\ pc = "scan"
    /\ tokens' # tokens
    /\ error' = NoError
    /\ NewToken.type # "TOK_EOF"

\* C32: the line of each token is the scanner's first line plus the number
\* of line breaks that stand before the token in the input, \r\n being one
\* break, wherever the breaks are.
C32_LineCountsBreaksBefore ==
    [][ScannedToken => NewToken.line = NewScanner(source).line + Breaks(source, Before)]_vars

\* the same for tokens that no content and no string precedes
LineCountsBreaksInMarkup ==
    [][(ScannedToken /\ \A i \in 1..Before : source[i] \notin {">", "'"})
          => NewToken.line = NewScanner(source).line + Breaks(source, Before)]_vars

\* a token on the third line was scanned
LineIsCounted ==
    /\ tokens # <<>>
    /\ tokens[Len(tokens)].type = "TOK_ST_TAG"
    /\ tokens[Len(tokens)].line = 3

-----------------------------------------------------------------------------
(* The place of the prolog *)

MaxPlacePieces == 4

PlacePieces == {
    <<Prolog(<<>>)>>,
    <<Prolog(<<Attr(<<"v">>, <<"1">>)>>)>>,
    <<Open(<<"a">>, <<>>)>>,
    <<Close(<<"a">>)>>,
    <<Empty(<<"b">>, <<>>)>>
}

PlaceInit ==
    ParseInitWith(DocsOf(PlacePieces, MaxPlacePieces),
                  {EmptyFilter}, {TagUpperBound}, {DefaultMaxDepth})

SpecPlace == PlaceInit /\ [][ParseNext]_vars

\* a prolog stands somewhere after the first construct: after an element,
\* after another prolog or inside an open element
PrologNotFirst == \E i \in 2..Len(doc) : doc[i].kind = "prolog"

WithoutPrologs == SelectSeq(doc, LAMBDA item : item.kind # "prolog")

\* C33: a document with a prolog that is not its first construct is not
\* parsed: read() ends with an error.
C33_PrologOnlyFirst ==
    (pc \in {"done", "error"} /\ PrologNotFirst) => pc = "error"

\* what the code does: a prolog is applied and dropped wherever it stands,
\* and the document is parsed as it is without its prologs
PrologIsDroppedAnywhere ==
    pc \in {"done", "error"} =>
        LET Q == read(NewParse(file.filter, file.maxTags, file.maxDepth),
                      RenderAll(WithoutPrologs))
        IN  /\ (pc = "error") = Failed(Q)
            /\ pc = "done" => Canon(heap, file.root) = Canon(Q.nodes, Q.file.root)

-----------------------------------------------------------------------------
(* The construction stack when read() returns *)

\* the start tags of a document less its end tags
RECURSIVE OpenAtEnd(_)
OpenAtEnd(items) ==
    IF items = <<>> THEN 0
    ELSE OpenAtEnd(Tail(items)) +
         (CASE Head(items).kind = "open" -> 1
            [] Head(items).kind = "close" -> -1
            [] OTHER -> 0)

\* C34: when read() returns without an error the construction stack holds
\* the root alone: an input that ends with elements open is not accepted.
C34_NoElementLeftOpen ==
    pc = "done" => file.stack = <<file.root>>

\* what the code does: the elements left open stay on the stack, out of the
\* tree, and read() returns without an error
OpenElementsStayOnStack ==
    pc = "done" =>
        /\ Len(file.stack) = 1 + OpenAtEnd(doc)
        /\ \A i \in 2..Len(file.stack) :
              /\ heap[file.stack[i]].parent = NullNode
              /\ file.stack[i] \notin TreeIds(heap, file.root)

-----------------------------------------------------------------------------
(* The depth guard and the attributes of a start tag *)

DepthExceeded == Err("maximum stack depth exceeded", <<>>)

\* an element at nesting depth 1 whose attributes all differ in name
DistinctOnElement ==
    /\ Carrier.kind \in {"open", "empty"}
    /\ FirstRepeat(Carrier.attrs) = 0

\* C35: with the default maximum depth an element at nesting depth 1 is
\* parsed without a depth error whatever the number of its attributes, all
\* of different names.
C35_DepthIndependentOfAttributes ==
    (pc \in {"done", "error"} /\ DistinctOnElement) => (pc = "done" /\ error # DepthExceeded)

\* what the code does: each attribute takes the guard one level deeper, from
\* the 4 levels of the rules above it, and the parse fails when that passes
\* the maximum
DepthGrowsWithAttributes ==
    (pc \in {"done", "error"} /\ DistinctOnElement) =>
        IF GuardBefore + Len(Carrier.attrs) > file.maxDepth
        THEN pc = "error" /\ error = DepthExceeded
        ELSE pc = "done" /\ (Carrier.kind = "empty" => depth = GuardBefore + Len(Carrier.attrs))

-----------------------------------------------------------------------------
(* The tag counter over many creations *)

\* creations enough to take a 16-bit counter once around
MaxCreations == 65537

\* maximum tag counts, the greatest a U16 holds among them
TagLimits == {0, 1, 2, 65534, 65535}

CounterInit == ParseInitWith({<<>>}, {EmptyFilter}, TagLimits, {DefaultMaxDepth})

\* createTag("xml") and dropRule(), as in the prolog branch of
\* ruleObjectList: the counter goes up, and the node is created, put on the
\* stack, taken off and deleted; the deleted node leaves no record here
CreateTag ==
    /\ pc = "parse"
    /\ round <= MaxCreations
    /\ \E P1 \in {dropRule(createTag(Parse, <<"x", "m", "l">>))} :
           /\ file' = P1.file
           /\ error' = P1.error
           /\ heap' = SubSeq(P1.nodes, 1, Len(heap))
           /\ pc' = IF Failed(P1) THEN "error" ELSE "parse"
    /\ round' = round + 1
    /\ UNCHANGED <<source, doc, depth>>
    /\ UNCHANGED checkVars
    /\ UNCHANGED <<scanner, tokens>>
    /\ UNCHANGED writeVars

CounterNext == Read \/ CreateTag

SpecCounter == CounterInit /\ [][CounterNext]_vars

\* the creations that were let through since read() began
Created == round - 1

\* C36: whatever the maximum tag count M a U16 holds, no more than M tags
\* are created: the counter does not wrap and let creations go on past M.
C36_TagLimitHoldsForEveryMaximum ==
    pc = "parse" => Created <= file.maxTags

\* the same for every maximum below the greatest
TagLimitHoldsBelowGreatest ==
    (pc = "parse" /\ file.maxTags < U16Limit - 1) => Created <= file.maxTags

\* what the code does: the counter is the creations plus one in 16 bits, and
\* under the maximum 65535 it goes from 65535 to 0 and on
CounterWraps ==
    pc = "parse" => file.tagCount = (Created + 1) % U16Limit

-----------------------------------------------------------------------------
(* One Writer asked to write more than once *)

MaxWriterPieces == 5
MaxWrites == 3

WriterDocs == {d \in DocsOf(RoundTripPieces, MaxWriterPieces) : WellFormed(d)}

WriterInit ==
    ParseInitWith(WriterDocs, {EmptyFilter}, {TagUpperBound}, {DefaultMaxDepth})

\* Writer writer(top); writer.setMinify(minify); writer.setShowXmlHeader(header)
MakeWriter ==
    /\ pc = "done"
    /\ Root.children # <<>>
    /\ \E minify \in BOOLEAN, header \in BOOLEAN, order \in AttributeOrders :
           /\ writer' = setShowXmlHeader(setMinify(NewWriter(Root.children[1]), minify), header)
           /\ call' = [op |-> "Writer", order |-> order, count |-> 0]
    /\ pc' = "writer"
    /\ UNCHANGED <<source, round, written, reread, returned>>
    /\ UNCHANGED checkVars
    /\ UNCHANGED scanVars
    /\ UNCHANGED fileVars

\* writer.write(output), output being a stream that was empty: written is
\* what this call sent there
WriteAgain ==
    /\ pc = "writer"
    /\ call.count < MaxWrites
    /\ writer' = write(writer, heap, call.order)
    /\ written' = writer'.out
    /\ call' = [call EXCEPT !.op = "write", !.count = @ + 1]
    /\ pc' = pc
    /\ UNCHANGED <<source, round, reread, returned>>
    /\ UNCHANGED checkVars
    /\ UNCHANGED scanVars
    /\ UNCHANGED fileVars

WriterNext == Read \/ ParseRound \/ MakeWriter \/ WriteAgain

SpecWriter == WriterInit /\ [][WriterNext]_vars

\* a call of write after the first on the same Writer
LaterWrite == pc = "writer" /\ call.op = "write" /\ call'.count = call.count + 1

\* C37: a call of write after the first, the tree unchanged, sends its
\* output the text the call before it sent.
C37_WriteTwiceSameText ==
    [][LaterWrite => written' = written]_vars

\* what the code does: _out is never emptied, so each call sends all that
\* the calls before it sent and the rendering once more
WriteRepeatsEarlierText ==
    [][LaterWrite => written' = written \o SubSeq(written, 1, Len(written) \div call.count)]_vars

-----------------------------------------------------------------------------
(* File::write when the root has no child *)

MaxEmptyPieces == 3

EmptyPieces == {
    <<Open(<<"a">>, <<>>)>>,
    <<Close(<<"a">>)>>,
    <<Empty(<<"b">>, <<>>)>>,
    <<Text(<<" ">>)>>
}

\* no filter, a filter that lists b, and one that lists no name of the
\* documents
EmptyFilters == {EmptyFilter, <<"b">> :> 1, <<"z">> :> 1}

EmptyInit ==
    ParseInitWith(DocsOf(EmptyPieces, MaxEmptyPieces),
                  EmptyFilters, {TagUpperBound}, {DefaultMaxDepth})

\* File::write(output, format) before read() or after it has returned
WriteAnyTime ==
    /\ pc \in {"read", "done"}
    /\ \E format \in Formats, order \in AttributeOrders :
        \E r \in writeImpl(Parse, format, order) :
           /\ written' = r.out
           /\ call' = [op |-> "write", format |-> format, order |-> order]
           /\ pc' = IF r.crashed THEN "crashed" ELSE "written"
    /\ UNCHANGED <<source, round, writer, reread, returned>>
    /\ UNCHANGED checkVars
    /\ UNCHANGED scanVars
    /\ UNCHANGED fileVars

EmptyNext == Read \/ ParseRound \/ WriteAnyTime

SpecEmpty == EmptyInit /\ [][EmptyNext]_vars

\* write was called, and the root had no child
WroteChildless == pc \in {"written", "crashed"} /\ Root.children = <<>>

\* C38: write called while the root has no child writes nothing and reads
\* no element of the empty child list, so that it returns.
C38_WriteOfChildlessRoot ==
    WroteChildless => (pc = "written" /\ written = <<>>)

\* write called while the root has a child returns
WriteWithChildReturns ==
    (pc \in {"written", "crashed"} /\ Root.children # <<>>) => pc = "written"

-----------------------------------------------------------------------------
(* Node::nextSiblingOf after addChild calls made by hand *)

\* how a call of nextSiblingOf ends: it returns a pointer, or its loop goes
\* on for ever
Returns(nd) == [ret |-> nd, returns |-> TRUE]
NeverReturns == [ret |-> NullNode, returns |-> FALSE]

\* the loop of Node::nextSiblingOf, nd being the node it looks at; seen are
\* the nodes it has looked at: back at one of them, with nothing changed, it
\* goes round again without end
RECURSIVE nextSiblingOfFrom(_, _, _, _)
nextSiblingOfFrom(nodes, nd, tag, seen) ==
    IF nd = NullNode THEN Returns(NullNode)
    ELSE IF isTypeOf(nodes[nd], tag) THEN Returns(nd)
    ELSE IF nd \in seen THEN NeverReturns
    ELSE nextSiblingOfFrom(nodes, nodes[nd].next, tag, seen \cup {nd})

\* Node::nextSiblingOf(tag) on the node n
nextSiblingOf(nodes, n, tag) == nextSiblingOfFrom(nodes, nodes[n].next, tag, {})

\* types that some node has and types that none has
SiblingTags == {ByName(<<"a">>), ByName(<<"c">>), ByName(<<"z">>), ByCode(1)}

\* n->nextSiblingOf(tag), for any node and type
NextSiblingOf ==
    /\ pc = "node"
    /\ \E n \in 1..Len(heap), tag \in SiblingTags :
           /\ returned' = nextSiblingOf(heap, n, tag).ret
           /\ pc' = IF nextSiblingOf(heap, n, tag).returns THEN "node" ELSE "looping"
           /\ call' = [op |-> "nextSiblingOf", node |-> n, tag |-> tag]
    /\ UNCHANGED <<source, round, writer, written, reread>>
    /\ UNCHANGED checkVars
    /\ UNCHANGED scanVars
    /\ UNCHANGED fileVars

SiblingNext == AddChild \/ NextSiblingOf

SpecSibling == NodeInit /\ [][SiblingNext]_vars

\* following next links from nd for at most k steps comes to null
RECURSIVE ChainEnds(_, _, _)
ChainEnds(h, nd, k) ==
    IF nd = NullNode THEN TRUE
    ELSE IF k = 0 THEN FALSE
    ELSE ChainEnds(h, h[nd].next, k - 1)

NextChainsEnd(h) == \A n \in 1..Len(h) : ChainEnds(h, n, Len(h))

\* C39: after any sequence of addChild calls, a node added twice to one
\* parent included, the chain of next links from any node comes to null, and
\* every call of nextSiblingOf returns.
C39_SiblingChainEnds ==
    /\ NextChainsEnd(heap)
    /\ pc # "looping"

\* the same, as long as no node was added twice
SiblingChainEndsIfAddedOnce ==
    EachAddedOnce(heap) => (NextChainsEnd(heap) /\ pc # "looping")

=============================================================================
